---- MODULE Spec2Model ----
(***************************************************************************)
(* Model of the search core of the chess engine in src/engine.cpp:         *)
(* the iterative-deepening driver, pvSearch, quiescenceSearch, the move    *)
(* ordering tables (killer, counter, history), the static evaluator and    *)
(* the static exchange evaluator.                                          *)
(*                                                                         *)
(* The recursion of pvSearch/quiescenceSearch is modelled by an explicit   *)
(* call stack: one frame per invocation, one action per segment of code    *)
(* between two recursive calls.  The Board, the transposition table and    *)
(* the constants of engine.h are collaborators whose code is not part of   *)
(* engine.cpp; they are modelled from their contracts.                     *)
(***************************************************************************)
EXTENDS Integers, Sequences, FiniteSets, TLC

(***************************************************************************)
(* Constants of engine.h                                                   *)
(***************************************************************************)
MAX_PLY == 64

PAWN_VALUE == 100

KNIGHT_VALUE == 320

BISHOP_VALUE == 330

ROOK_VALUE == 500

QUEEN_VALUE == 900

KING_VALUE == 20000

\* The root window handed to pvSearch by the driver (wide integer bounds).
INF_SCORE == 1000000

\* Mate score of evaluatePosition and of the terminal branch of pvSearch.
MATE_SCORE == 100000

\* Ceiling of a history entry before the table is halved.
HISTORY_CEILING == 10000

\* std::numeric_limits<int>::min() and max()
INT_MAX == 2147483647

INT_MIN == -INT_MAX - 1

(***************************************************************************)
(* Bounds of the model                                                     *)
(***************************************************************************)
\* Greatest maxDepth handed to iterativeDeepeningSearch.
MaxDepth == 4

\* The number of storeKillerMove calls of the killer-table specification.
MaxKillerCalls == 4

\* The number of updateHistoryScore calls of the history-table specification.
MaxHistoryCalls == 6

(***************************************************************************)
(* Squares, pieces, moves                                                  *)
(***************************************************************************)
\* A square is row * 8 + col, row 0 first; Position() is the invalid square.
NoSq == -1

Sq(row, col) == row * 8 + col

RowOf(sq) == sq \div 8

ColOf(sq) == sq % 8

isValid(sq) == sq >= 0 /\ sq < 64

\* Move(Position(), Position()): the null sentinel move.
NullMove == [from |-> NoSq, to |-> NoSq]

Mv(f, t) == [from |-> f, to |-> t]

\* The comparison the engine spells out field by field (from.row, from.col,
\* to.row, to.col); the promotion piece takes no part in it.
SameMove(a, b) == a.from = b.from /\ a.to = b.to

NoPiece == [type |-> "NONE", color |-> "NONE"]

Pc(t, c) == [type |-> t, color |-> c]

Other(color) == IF color = "WHITE" THEN "BLACK" ELSE "WHITE"

\* static_cast<int>(PieceType): the index into the MVV-LVA matrix.
TypeIndex(t) ==
  CASE t = "PAWN" -> 0 [] t = "KNIGHT" -> 1 [] t = "BISHOP" -> 2
    [] t = "ROOK" -> 3 [] t = "QUEEN" -> 4 [] t = "KING" -> 5

(***************************************************************************)
(* Piece-square tables                                                     *)
(***************************************************************************)
pawnTable ==
  << 0,  0,  0,  0,  0,  0,  0,  0,
     50, 50, 50, 50, 50, 50, 50, 50,
     10, 10, 20, 30, 30, 20, 10, 10,
     5,  5, 10, 25, 25, 10,  5,  5,
     0,  0,  0, 20, 20,  0,  0,  0,
     5, -5,-10,  0,  0,-10, -5,  5,
     5, 10, 10,-20,-20, 10, 10,  5,
     0,  0,  0,  0,  0,  0,  0,  0 >>

knightTable ==
  << -50,-40,-30,-30,-30,-30,-40,-50,
     -40,-20,  0,  0,  0,  0,-20,-40,
     -30,  0, 10, 15, 15, 10,  0,-30,
     -30,  5, 15, 20, 20, 15,  5,-30,
     -30,  0, 15, 20, 20, 15,  0,-30,
     -30,  5, 10, 15, 15, 10,  5,-30,
     -40,-20,  0,  5,  5,  0,-20,-40,
     -50,-40,-30,-30,-30,-30,-40,-50 >>

bishopTable ==
  << -20,-10,-10,-10,-10,-10,-10,-20,
     -10,  0,  0,  0,  0,  0,  0,-10,
     -10,  0, 10, 10, 10, 10,  0,-10,
     -10,  5,  5, 10, 10,  5,  5,-10,
     -10,  0,  5, 10, 10,  5,  0,-10,
     -10,  5,  5,  5,  5,  5,  5,-10,
     -10,  0,  5,  0,  0,  5,  0,-10,
     -20,-10,-10,-10,-10,-10,-10,-20 >>

rookTable ==
  << 0,  0,  0,  0,  0,  0,  0,  0,
     5, 10, 10, 10, 10, 10, 10,  5,
     -5,  0,  0,  0,  0,  0,  0, -5,
     -5,  0,  0,  0,  0,  0,  0, -5,
     -5,  0,  0,  0,  0,  0,  0, -5,
     -5,  0,  0,  0,  0,  0,  0, -5,
     -5,  0,  0,  0,  0,  0,  0, -5,
     0,  0,  0,  5,  5,  0,  0,  0 >>

queenTable ==
  << -20,-10,-10, -5, -5,-10,-10,-20,
     -10,  0,  0,  0,  0,  0,  0,-10,
     -10,  0,  5,  5,  5,  5,  0,-10,
     -5,  0,  5,  5,  5,  5,  0, -5,
     0,  0,  5,  5,  5,  5,  0, -5,
     -10,  5,  5,  5,  5,  5,  0,-10,
     -10,  0,  5,  0,  0,  0,  0,-10,
     -20,-10,-10, -5, -5,-10,-10,-20 >>

kingMiddleGameTable ==
  << -30,-40,-40,-50,-50,-40,-40,-30,
     -30,-40,-40,-50,-50,-40,-40,-30,
     -30,-40,-40,-50,-50,-40,-40,-30,
     -30,-40,-40,-50,-50,-40,-40,-30,
     -20,-30,-30,-40,-40,-30,-30,-20,
     -10,-20,-20,-20,-20,-20,-20,-10,
     20, 20,  0,  0,  0,  0, 20, 20,
     20, 30, 10,  0,  0, 10, 30, 20 >>

kingEndGameTable ==
  << -50,-40,-30,-20,-20,-30,-40,-50,
     -30,-20,-10,  0,  0,-10,-20,-30,
     -30,-10, 20, 30, 30, 20,-10,-30,
     -30,-10, 30, 40, 40, 30,-10,-30,
     -30,-10, 30, 40, 40, 30,-10,-30,
     -30,-10, 20, 30, 30, 20,-10,-30,
     -30,-30,  0,  0,  0,  0,-30,-30,
     -50,-30,-30,-30,-30,-30,-30,-50 >>

(***************************************************************************)
(* The Board collaborator.  A board is the placement of the pieces, the    *)
(* side to move and the en-passant target; the rule set it is played under *)
(* belongs to the game.  A rule set is a fragment of chess: the list of    *)
(* piece moves the move generator knows, each                              *)
(* <<type, from, to, via, kind>> with via the                              *)
(* squares that must be empty and kind "both" (move or capture), "move"    *)
(* (to an empty square only) or "capture" (onto an enemy piece only).      *)
(***************************************************************************)
R(t, f, to, via, kind) == [type |-> t, from |-> f, to |-> to, via |-> via, kind |-> kind]

\* Game 1: a knight each, two outposts each, every move quiet.
KnightRules ==
  << R("KNIGHT", 57, 42, {}, "both"), R("KNIGHT", 57, 40, {}, "both"),
     R("KNIGHT", 42, 57, {}, "both"), R("KNIGHT", 40, 57, {}, "both"),
     R("KNIGHT", 1, 18, {}, "both"),  R("KNIGHT", 1, 16, {}, "both"),
     R("KNIGHT", 18, 1, {}, "both"),  R("KNIGHT", 16, 1, {}, "both") >>

KnightPieces ==
  (62 :> Pc("KING", "WHITE")) @@ (57 :> Pc("KNIGHT", "WHITE")) @@
  (6 :> Pc("KING", "BLACK")) @@ (1 :> Pc("KNIGHT", "BLACK"))

\* Game 2: Kg6 Qa2 against Kh8.  Qa8 mates, Qf7 stalemates, Qg8+ is answered
\* by Kxg8 (stalemate of the bare white king), Qa3 Kg8 Qa8 mates.
QueenRules ==
  << R("QUEEN", 48, 0, {40, 32, 24, 16, 8}, "both"),
     R("QUEEN", 48, 13, {41, 34, 27, 20}, "both"),
     R("QUEEN", 48, 6, {41, 34, 27, 20, 13}, "both"),
     R("QUEEN", 48, 40, {}, "both"),
     R("QUEEN", 40, 0, {32, 24, 16, 8}, "both"),
     R("QUEEN", 0, 5, {1, 2, 3, 4}, "both"),
     R("QUEEN", 0, 6, {1, 2, 3, 4, 5}, "both"),
     R("QUEEN", 0, 7, {1, 2, 3, 4, 5, 6}, "both"),
     R("QUEEN", 13, 6, {}, "both"), R("QUEEN", 13, 14, {}, "both"),
     R("QUEEN", 6, 7, {}, "both"), R("QUEEN", 6, 14, {}, "both"),
     R("QUEEN", 6, 15, {}, "both"),
     R("KING", 22, 13, {}, "both"), R("KING", 22, 14, {}, "both"),
     R("KING", 22, 15, {}, "both"),
     R("KING", 7, 6, {}, "both"), R("KING", 7, 14, {}, "both"),
     R("KING", 7, 15, {}, "both"),
     R("KING", 6, 5, {}, "both"), R("KING", 6, 7, {}, "both"),
     R("KING", 6, 13, {}, "both"), R("KING", 6, 14, {}, "both"),
     R("KING", 6, 15, {}, "both"),
     R("KING", 13, 6, {}, "both"), R("KING", 13, 14, {}, "both") >>

QueenPieces ==
  (22 :> Pc("KING", "WHITE")) @@ (48 :> Pc("QUEEN", "WHITE")) @@
  (7 :> Pc("KING", "BLACK"))

\* Games 8 and 9: the queen has gone to f7 (Black to move is stalemated) or
\* to a8 (Black to move is checkmated).
StalematePieces ==
  (22 :> Pc("KING", "WHITE")) @@ (13 :> Pc("QUEEN", "WHITE")) @@
  (7 :> Pc("KING", "BLACK"))

MatedPieces ==
  (22 :> Pc("KING", "WHITE")) @@ (0 :> Pc("QUEEN", "WHITE")) @@
  (7 :> Pc("KING", "BLACK"))

\* Games 3 and 10: each king shuffles between two squares, so every position
\* has exactly one legal move; in game 10 the board refuses Black's Kh8-g8.
ShuffleRules ==
  << R("KING", 56, 57, {}, "both"), R("KING", 57, 56, {}, "both"),
     R("KING", 7, 6, {}, "both"),   R("KING", 6, 7, {}, "both") >>

ShufflePieces ==
  (56 :> Pc("KING", "WHITE")) @@ (48 :> Pc("PAWN", "WHITE")) @@
  (7 :> Pc("KING", "BLACK"))

\* Game 4: Rd1 may take the knight on d5, defended by the pawn on e6.
RookRules ==
  << R("ROOK", 59, 27, {51, 43, 35}, "both"), R("ROOK", 59, 51, {}, "both"),
     R("ROOK", 51, 27, {43, 35}, "both"),     R("ROOK", 51, 59, {}, "both"),
     R("KING", 62, 63, {}, "both"),           R("KING", 63, 62, {}, "both"),
     R("PAWN", 20, 27, {}, "capture"),
     R("KNIGHT", 27, 10, {}, "both"),         R("KNIGHT", 10, 27, {}, "both"),
     R("KING", 6, 7, {}, "both"),             R("KING", 7, 6, {}, "both") >>

RookPieces ==
  (62 :> Pc("KING", "WHITE")) @@ (59 :> Pc("ROOK", "WHITE")) @@
  (6 :> Pc("KING", "BLACK")) @@ (27 :> Pc("KNIGHT", "BLACK")) @@
  (20 :> Pc("PAWN", "BLACK"))

\* Game 7: the white rook walks a corridor of single moves, then has two
\* moves, and two plies later a pawn to take.
CorridorPath ==
  << 56, 57, 58, 59, 60, 61, 62, 63, 55, 54, 53, 52, 51, 50, 49, 48,
     40, 41, 42, 43, 44, 45, 46, 47, 39, 38, 37, 36, 35, 34, 33 >>

CorridorRules ==
  [k \in 1 .. Len(CorridorPath) - 1 |->
     R("ROOK", CorridorPath[k], CorridorPath[k + 1], {}, "both")]
  \o << R("ROOK", 33, 32, {}, "both"), R("ROOK", 33, 25, {}, "both"),
        R("ROOK", 32, 24, {}, "both"), R("ROOK", 25, 24, {}, "both"),
        R("KING", 7, 6, {}, "both"),   R("KING", 6, 7, {}, "both") >>

CorridorPieces ==
  (8 :> Pc("KING", "WHITE")) @@ (56 :> Pc("ROOK", "WHITE")) @@
  (7 :> Pc("KING", "BLACK")) @@ (24 :> Pc("PAWN", "BLACK"))

\* The games: rules, the pieces of the starting position, and the moves the
\* board's makeMove refuses although its generator lists them.
Games ==
  << [rules |-> KnightRules,   pieces |-> KnightPieces,   refuse |-> {}],
     [rules |-> QueenRules,    pieces |-> QueenPieces,    refuse |-> {}],
     [rules |-> ShuffleRules,  pieces |-> ShufflePieces,  refuse |-> {}],
     [rules |-> RookRules,     pieces |-> RookPieces,     refuse |-> {}],
     [rules |-> KnightRules,   pieces |-> KnightPieces,   refuse |-> {Mv(57, 42)}],
     [rules |-> RookRules,     pieces |-> RookPieces,     refuse |-> {Mv(20, 27)}],
     [rules |-> CorridorRules, pieces |-> CorridorPieces, refuse |-> {}],
     [rules |-> QueenRules,    pieces |-> StalematePieces, refuse |-> {}],
     [rules |-> QueenRules,    pieces |-> MatedPieces,    refuse |-> {}],
     [rules |-> ShuffleRules,  pieces |-> ShufflePieces,  refuse |-> {Mv(7, 6)}] >>

GameIds == 1 .. Len(Games)

StartBoard(g, side) ==
  [pieces |-> Games[g].pieces, side |-> side, ep |-> NoSq]

\* The game the engine plays: its movement rules, its start placement and the
\* moves its board refuses.  It never changes.
VARIABLE game

getPieceAt(b, sq) == IF sq \in DOMAIN b.pieces THEN b.pieces[sq] ELSE NoPiece

getSideToMove(b) == b.side

getEnPassantTarget(b) == b.ep

\* The placement after the piece on m.from has moved to m.to.
ApplyMove(b, m) ==
  [b EXCEPT !.pieces = [s \in (DOMAIN b.pieces \ {m.from}) \cup {m.to} |->
                          IF s = m.to THEN b.pieces[m.from] ELSE b.pieces[s]],
            !.side = Other(b.side)]

\* Whether rule r moves a piece of colour c on board b.
RuleApplies(b, r, c) ==
  /\ getPieceAt(b, r.from) = Pc(r.type, c)
  /\ getPieceAt(b, r.to).color # c
  /\ \A v \in r.via : v \notin DOMAIN b.pieces
  /\ r.kind = "move" => r.to \notin DOMAIN b.pieces
  /\ r.kind = "capture" => r.to \in DOMAIN b.pieces

Attacked(b, sq, c) ==
  \E i \in 1 .. Len(game.rules) :
     LET r == game.rules[i] IN
       /\ r.to = sq /\ r.kind # "move"
       /\ getPieceAt(b, r.from) = Pc(r.type, c)
       /\ \A v \in r.via : v \notin DOMAIN b.pieces

KingInCheck(b, c) ==
  \E sq \in DOMAIN b.pieces : b.pieces[sq] = Pc("KING", c) /\ Attacked(b, sq, Other(c))

isInCheck(b) == KingInCheck(b, b.side)

RuleLegal(b, r, c) ==
  RuleApplies(b, r, c) /\ ~KingInCheck(ApplyMove(b, Mv(r.from, r.to)), c)

RECURSIVE LegalFrom(_, _, _)
LegalFrom(b, c, i) ==
  IF i > Len(game.rules) THEN << >>
  ELSE LET r == game.rules[i] IN
         (IF RuleLegal(b, r, c) THEN << Mv(r.from, r.to) >> ELSE << >>)
           \o LegalFrom(b, c, i + 1)

generateLegalMoves(b) == LegalFrom(b, b.side, 1)

\* piece->getLegalMoves(board): the destinations of the piece on sq.
PieceLegalMoves(b, sq) ==
  { r.to : r \in { game.rules[i] : i \in
       { j \in 1 .. Len(game.rules) :
           /\ game.rules[j].from = sq
           /\ RuleLegal(b, game.rules[j], getPieceAt(b, sq).color) } } }

isCheckmate(b) == isInCheck(b) /\ generateLegalMoves(b) = << >>

isStalemate(b) == ~isInCheck(b) /\ generateLegalMoves(b) = << >>

\* board.makeMove(move, previousState): whether the board accepts the move.
makeMoveOk(b, m) == m \notin game.refuse

(***************************************************************************)
(* Static evaluation                                                       *)
(***************************************************************************)
isEndgame(b) ==
  LET officers == { sq \in DOMAIN b.pieces : b.pieces[sq].type \notin {"KING", "PAWN"} }
      pieceCount == Cardinality(officers)
      whiteQueenPresent == \E sq \in officers : b.pieces[sq] = Pc("QUEEN", "WHITE")
      blackQueenPresent == \E sq \in officers : b.pieces[sq] = Pc("QUEEN", "BLACK")
  IN (~whiteQueenPresent /\ ~blackQueenPresent) \/ pieceCount <= 6

getPieceValue(type) ==
  CASE type = "PAWN" -> PAWN_VALUE
    [] type = "KNIGHT" -> KNIGHT_VALUE
    [] type = "BISHOP" -> BISHOP_VALUE
    [] type = "ROOK" -> ROOK_VALUE
    [] type = "QUEEN" -> QUEEN_VALUE
    [] type = "KING" -> KING_VALUE
    [] OTHER -> 0

\* pieceValue + positionalValue of the piece on sq.
SquareValue(b, sq) ==
  LET piece == b.pieces[sq]
      tableIndex == RowOf(sq) * 8 + ColOf(sq)
      blackTableIndex == (7 - RowOf(sq)) * 8 + ColOf(sq)
      idx == (IF piece.color = "WHITE" THEN tableIndex ELSE blackTableIndex) + 1
      positionalValue ==
        CASE piece.type = "PAWN" -> pawnTable[idx]
          [] piece.type = "KNIGHT" -> knightTable[idx]
          [] piece.type = "BISHOP" -> bishopTable[idx]
          [] piece.type = "ROOK" -> rookTable[idx]
          [] piece.type = "QUEEN" -> queenTable[idx]
          [] piece.type = "KING" ->
               IF isEndgame(b) THEN kingEndGameTable[idx] ELSE kingMiddleGameTable[idx]
          [] OTHER -> 0
  IN getPieceValue(piece.type) + positionalValue

\* The sum of SquareValue over the squares of S.
RECURSIVE SumSquares(_, _)
SumSquares(b, S) ==
  IF S = {} THEN 0
  ELSE LET sq == CHOOSE y \in S : TRUE IN SquareValue(b, sq) + SumSquares(b, S \ {sq})

SideScore(b, color) ==
  SumSquares(b, { sq \in DOMAIN b.pieces : b.pieces[sq].color = color })

evaluatePositionNoStalemate(b) ==
  LET score == SideScore(b, "WHITE") - SideScore(b, "BLACK")
  IN IF isCheckmate(b)
       THEN (IF getSideToMove(b) = "WHITE" THEN -MATE_SCORE ELSE MATE_SCORE)
     ELSE IF getSideToMove(b) = "WHITE" THEN score ELSE -score

\* The evaluation without the final change to the mover's point of view.
evaluatePositionWhiteView(b) ==
  IF isCheckmate(b)
    THEN (IF getSideToMove(b) = "WHITE" THEN -MATE_SCORE ELSE MATE_SCORE)
  ELSE IF isStalemate(b) THEN 0
  ELSE SideScore(b, "WHITE") - SideScore(b, "BLACK")

evaluatePosition(b) ==
  LET whiteScore == SideScore(b, "WHITE")
      blackScore == SideScore(b, "BLACK")
      score == whiteScore - blackScore
  IN IF isCheckmate(b)
       THEN (IF getSideToMove(b) = "WHITE" THEN -MATE_SCORE ELSE MATE_SCORE)
     ELSE IF isStalemate(b) THEN 0
     ELSE IF getSideToMove(b) = "WHITE" THEN score ELSE -score

(***************************************************************************)
(* Exchange evaluation and capture ordering                                *)
(***************************************************************************)
mvvLvaScores ==
  << << 105, 205, 305, 405, 505, 605 >>,
     << 104, 204, 304, 404, 504, 604 >>,
     << 103, 203, 303, 403, 503, 603 >>,
     << 102, 202, 302, 402, 502, 602 >>,
     << 101, 201, 301, 401, 501, 601 >>,
     << 100, 200, 300, 400, 500, 600 >> >>

getMVVLVAScore(attacker, victim) ==
  mvvLvaScores[TypeIndex(attacker) + 1][TypeIndex(victim) + 1]

Max(a, b) == IF a >= b THEN a ELSE b

Min(a, b) == IF a <= b THEN a ELSE b

\* The values of the pieces not of colour side that can move to square.
AttackerValues(b, square, side) ==
  { getPieceValue(b.pieces[pos].type) :
      pos \in { p \in DOMAIN b.pieces :
                  b.pieces[p].color # side /\ square \in PieceLegalMoves(b, p) } }

RECURSIVE see(_, _, _, _)
see(b, square, side, captureValue) ==
  LET values == AttackerValues(b, square, side) IN
    IF values = {} THEN 0
    ELSE LET leastValuableAttackerValue == CHOOSE v \in values : \A w \in values : v <= w
             score == captureValue - see(b, square, Other(side), leastValuableAttackerValue)
         IN Max(0, score)

seeCapture(b, move) ==
  LET capturedPiece == getPieceAt(b, move.to)
      movingPiece == getPieceAt(b, move.from)
  IN IF capturedPiece = NoPiece THEN 0
     ELSE IF movingPiece = NoPiece THEN 0
     ELSE getPieceValue(capturedPiece.type)
            - see(b, move.to, movingPiece.color, getPieceValue(movingPiece.type))

(***************************************************************************)
(* State                                                                   *)
(***************************************************************************)
VARIABLES
  rootBoard,            \* game.getBoard(): the board of the game being played
  maxDepth,             \* the depth handed to iterativeDeepeningSearch
  board,                \* the Board& the search makes and unmakes moves on
  stack,                \* the frames of pvSearch / quiescenceSearch, root first
  ret,                  \* what the invocation that returned last handed back
  transpositionTable,   \* hash key -> [depth, score, type, bestMove]
  killerMoves,          \* ply -> << slot 0, slot 1 >>
  counterMoves,         \* << pieceType, color, fromIdx, toIdx >> -> move
  historyTable,         \* << colorIdx, fromIdx, toIdx >> -> score, 0 where absent
  principalVariation,   \* the PV of the last depth that produced one
  pvTable,              \* depth -> the PV storePV recorded for it
  idsPc,                \* the driver: "loop", "search" or "done"
  idsDepth,             \* the driver's loop variable
  bestMove,
  bestScore,
  rootCalls,            \* history: the depths the root pvSearch was invoked with
  rootResults,          \* history: the [score, pv] each root call handed back
  storeLog,             \* history: the moves handed to storeKillerMove, per ply
  historyCalls,         \* history: how many updateHistoryScore calls, the last one's
                        \* arguments and the table it found
  probe                 \* history: the last call made of a function on its own,
                        \* its arguments and its result

vars ==
  << game, rootBoard, maxDepth, board, stack, ret, transpositionTable, killerMoves,
     counterMoves, historyTable, principalVariation, pvTable, idsPc, idsDepth,
     bestMove, bestScore, rootCalls, rootResults, storeLog, historyCalls, probe >>

tables == << transpositionTable, killerMoves, counterMoves, historyTable >>

driver ==
  << idsPc, idsDepth, bestMove, bestScore, principalVariation, pvTable, rootCalls,
     rootResults >>

(***************************************************************************)
(* Ordering heuristics store                                               *)
(***************************************************************************)
Plies == 0 .. MAX_PLY - 1

EmptyKillers == [p \in Plies |-> << NullMove, NullMove >>]

\* The slot-0 test is left out.
storeKillerMoveAlways(km, move, ply) ==
  IF ply >= MAX_PLY THEN km
  ELSE [km EXCEPT ![ply] = << move, km[ply][1] >>]

storeKillerMove(km, move, ply) ==
  IF ply >= MAX_PLY THEN km
  ELSE IF SameMove(km[ply][1], move) THEN km
  ELSE [km EXCEPT ![ply] = << move, km[ply][1] >>]

isKillerMove(km, move, ply) ==
  IF ply >= MAX_PLY THEN FALSE
  ELSE SameMove(km[ply][1], move) \/ SameMove(km[ply][2], move)

\* The index of the counter-move entry of lastMove, or << >> when the move is
\* not valid or the game's board has no piece on its destination.
CounterKey(gameBoard, lastMove) ==
  IF ~isValid(lastMove.from) \/ ~isValid(lastMove.to) THEN << >>
  ELSE LET piece == getPieceAt(gameBoard, lastMove.to) IN
    IF piece = NoPiece THEN << >>
    ELSE << TypeIndex(piece.type), IF piece.color = "WHITE" THEN 0 ELSE 1,
            lastMove.from, lastMove.to >>

storeCounterMove(cm, gameBoard, lastMove, counterMove) ==
  LET key == CounterKey(gameBoard, lastMove) IN
    IF key = << >> THEN cm
    ELSE [k \in DOMAIN cm \cup {key} |-> IF k = key THEN counterMove ELSE cm[k]]

getCounterMove(cm, gameBoard, lastMove) ==
  LET key == CounterKey(gameBoard, lastMove) IN
    IF key = << >> THEN NullMove
    ELSE IF key \in DOMAIN cm THEN cm[key] ELSE NullMove

HistoryKey(move, color) == << IF color = "WHITE" THEN 0 ELSE 1, move.from, move.to >>

HistoryAt(ht, key) == IF key \in DOMAIN ht THEN ht[key] ELSE 0

\* int / 2 rounds toward zero.
Halve(x) == IF x >= 0 THEN x \div 2 ELSE -((-x) \div 2)

\* The table is never scaled down.
updateHistoryScoreNoHalve(ht, move, depth, color) ==
  LET key == HistoryKey(move, color) IN
    [k \in DOMAIN ht \cup {key} |->
       IF k = key THEN HistoryAt(ht, key) + depth * depth ELSE ht[k]]

\* Only the entry that crossed the ceiling is scaled down.
updateHistoryScoreHalveOne(ht, move, depth, color) ==
  LET key == HistoryKey(move, color)
      raised == HistoryAt(ht, key) + depth * depth
  IN [k \in DOMAIN ht \cup {key} |->
        IF k = key THEN (IF raised > HISTORY_CEILING THEN Halve(raised) ELSE raised)
        ELSE ht[k]]

updateHistoryScore(ht, move, depth, color) ==
  LET key == HistoryKey(move, color)
      bonus == depth * depth
      bumped == [k \in DOMAIN ht \cup {key} |->
                   IF k = key THEN HistoryAt(ht, key) + bonus ELSE ht[k]]
  IN IF bumped[key] > HISTORY_CEILING
       THEN [k \in DOMAIN bumped |-> Halve(bumped[k])]
       ELSE bumped

getHistoryScore(ht, move, color) == HistoryAt(ht, HistoryKey(move, color))

isPVMove(move, pv, ply) ==
  IF Len(pv) <= ply THEN FALSE ELSE SameMove(pv[ply + 1], move)

\* The deepest retained depth whose PV holds move at ply, 0 when none does.
RECURSIVE PvDepthOf(_, _, _, _)
PvDepthOf(pvt, move, ply, d) ==
  IF d < 1 THEN 0
  ELSE IF isPVMove(move, pvt[d], ply) THEN d
  ELSE PvDepthOf(pvt, move, ply, d - 1)

EmptyPvTable == [d \in 1 .. MaxDepth |-> << >>]

storePV(pvt, depth, pv) == [pvt EXCEPT ![depth] = pv]

\* captureScore with a winning capture keyed by its exchange value alone.
captureScoreBareSee(seeScore, attacker, victim) ==
  IF seeScore > 0 THEN seeScore
  ELSE 3000000 + getMVVLVAScore(attacker, victim)

\* captureScore with an even exchange counted as winning.
captureScoreEvenWins(seeScore, attacker, victim) ==
  IF seeScore >= 0 THEN 4000000 + seeScore
  ELSE 3000000 + getMVVLVAScore(attacker, victim)

\* The key getMoveScore gives a capture of victim by attacker for which
\* seeCapture has reported seeScore.
captureScore(seeScore, attacker, victim) ==
  IF seeScore > 0 THEN 4000000 + seeScore
  ELSE 3000000 + getMVVLVAScore(attacker, victim)

getMoveScore(move, b, ttMove, ply, sideToMove, lastMove) ==
  LET movingPiece == getPieceAt(b, move.from)
      capturedPiece == getPieceAt(b, move.to)
      pvDepth == PvDepthOf(pvTable, move, ply, maxDepth)
      counter == getCounterMove(counterMoves, rootBoard, lastMove)
  IN IF isValid(ttMove.from) /\ isValid(ttMove.to) /\ SameMove(ttMove, move)
       THEN 10000000
     ELSE IF pvDepth >= 1 THEN 9000000 + pvDepth * 1000
     ELSE IF capturedPiece # NoPiece
       THEN captureScore(seeCapture(b, move), movingPiece.type, capturedPiece.type)
     ELSE IF /\ isValid(lastMove.from) /\ isValid(lastMove.to)
             /\ isValid(counter.from) /\ isValid(counter.to)
             /\ SameMove(counter, move)
       THEN 2500000
     ELSE IF isKillerMove(killerMoves, move, ply)
       THEN (IF SameMove(killerMoves[ply][1], move) THEN 2000100 ELSE 2000000)
     ELSE getHistoryScore(historyTable, move, sideToMove)

getDepthAdjustment(move, b, pvMove, moveIndex) ==
  IF pvMove THEN 0
  ELSE IF getPieceAt(b, move.to) # NoPiece /\ seeCapture(b, move) < 0 THEN -1
  ELSE IF moveIndex < 3 THEN 0
  ELSE LET r1 == IF moveIndex >= 3 THEN 1 ELSE 0
           r2 == IF moveIndex >= 6 THEN 2 ELSE r1
           r3 == IF moveIndex >= 12 THEN 3 ELSE r2
       IN -Min(r3, 2)

\* std::sort of the (score, move) pairs by descending score; the vectors are
\* short, where the library sorts by insertion and equal keys keep their order.
RECURSIVE InsertScored(_, _)
InsertScored(sorted, x) ==
  IF sorted = << >> THEN << x >>
  ELSE IF x.score > Head(sorted).score THEN << x >> \o sorted
  ELSE << Head(sorted) >> \o InsertScored(Tail(sorted), x)

RECURSIVE SortScored(_)
SortScored(s) ==
  IF s = << >> THEN << >>
  ELSE InsertScored(SortScored(SubSeq(s, 1, Len(s) - 1)), s[Len(s)])

(***************************************************************************)
(* The transposition table collaborator                                    *)
(***************************************************************************)
\* probe(key, depth, alpha, beta, score, ttMove): the entry is usable when it
\* was searched at least as deep and its classification settles the window.
ttUsable(tt, key, depth, alpha, beta) ==
  /\ key \in DOMAIN tt
  /\ tt[key].depth >= depth
  /\ \/ tt[key].type = "EXACT"
     \/ tt[key].type = "ALPHA" /\ tt[key].score <= alpha
     \/ tt[key].type = "BETA" /\ tt[key].score >= beta

ttBestMove(tt, key) == IF key \in DOMAIN tt THEN tt[key].bestMove ELSE NullMove

ttStore(tt, key, depth, score, type, move) ==
  [k \in DOMAIN tt \cup {key} |->
     IF k = key THEN [depth |-> depth, score |-> score, type |-> type, bestMove |-> move]
     ELSE tt[k]]

\* Zobrist::generateHashKey / updateHashKey: the key of a board.
hashKeyOf(b) == b

(***************************************************************************)
(* Frames of the call stack                                                *)
(***************************************************************************)
Frame(fn, b, depth, alpha, beta, maximizingPlayer, ply, lastMove) ==
  [ fn |-> fn,                   \* "pv" (pvSearch) or "qs" (quiescenceSearch)
    pc |-> "entry",              \* "entry", "loop", "null", "full", "delegate", "store"
    entryBoard |-> b,            \* history: the board at entry
    entryAlpha |-> alpha,        \* history: the window at entry
    entryBeta |-> beta,
    depth |-> depth, alpha |-> alpha, beta |-> beta,
    maximizingPlayer |-> maximizingPlayer, ply |-> ply, lastMove |-> lastMove,
    originalAlpha |-> alpha, ttMove |-> NullMove, extension |-> 0,
    scoredMoves |-> << >>, i |-> 1,
    bestEval |-> 0,              \* maxEval or minEval
    localBestMove |-> NullMove, foundPV |-> FALSE, nodeType |-> "ALPHA",
    pv |-> << >>,
    move |-> NullMove,           \* the move made and not yet unmade
    moveExtension |-> 0, newDepth |-> 0,
    previousState |-> b,         \* the BoardState makeMove saved
    standPat |-> 0,
    searched |-> << >> ]         \* history: the scores of the captures searched

Top == stack[Len(stack)]

Below == SubSeq(stack, 1, Len(stack) - 1)

Running(fn, pc) == Len(stack) > 0 /\ Top.fn = fn /\ Top.pc = pc

\* The frame on top returns score and leaves pv in its caller's vector.
Return(kind, score, pv) ==
  /\ stack' = Below
  /\ ret' = [ fn |-> Top.fn, kind |-> kind, board |-> Top.entryBoard,
              depth |-> Top.depth, alpha |-> Top.entryAlpha, beta |-> Top.entryBeta,
              ply |-> Top.ply, maximizingPlayer |-> Top.maximizingPlayer,
              score |-> score, pv |-> pv ]

\* The frame on top becomes fr and calls child.
Call(fr, child) == stack' = Below \o << fr, child >>

\* -x in int: negating INT_MIN overflows, which is undefined; the builds
\* either wrap around to INT_MIN or fold the negation to the exact value's
\* nearest int.
NegOutcomes(x) == IF x = INT_MIN THEN {INT_MIN, INT_MAX} ELSE {-x}

(***************************************************************************)
(* quiescenceSearch                                                        *)
(***************************************************************************)
\* if (ply >= MAX_PLY - 1) return evaluatePosition(board);
qsPlyCeiling(ply) == ply >= MAX_PLY - 1

isCapturingMove(b, move) ==
  \/ getPieceAt(b, move.to) # NoPiece
  \/ getPieceAt(b, move.from).type = "PAWN" /\ move.to = getEnPassantTarget(b)

\* The scored captures of quiescenceSearch, before the sort.
RECURSIVE qsScored(_, _, _)
qsScored(b, moves, ply) ==
  IF moves = << >> THEN << >>
  ELSE LET move == Head(moves)
           movingPiece == getPieceAt(b, move.from)
           capturedPiece == getPieceAt(b, move.to)
           seeScore == seeCapture(b, move)
           rest == qsScored(b, Tail(moves), ply)
       IN IF ~isCapturingMove(b, move) THEN rest
          ELSE IF capturedPiece # NoPiece
            THEN (IF seeScore < 0 /\ ply > 2 /\ ~isInCheck(b) THEN rest
                  ELSE << [score |-> getMVVLVAScore(movingPiece.type, capturedPiece.type)
                                       + (IF seeScore < 0 THEN seeScore ELSE 0),
                           move |-> move] >> \o rest)
          ELSE << [score |-> getMVVLVAScore(movingPiece.type, "PAWN"), move |-> move] >>
                 \o rest

QsPlyCeiling ==
  /\ Running("qs", "entry")
  /\ qsPlyCeiling(Top.ply)
  /\ Return("ceiling", evaluatePosition(board), << >>)
  /\ UNCHANGED << game, probe, rootBoard, maxDepth, board, tables, driver, storeLog, historyCalls >>

\* A fail-soft stand-pat cutoff: the stand-pat score itself is returned.
QsStandPatCutoffSoft ==
  /\ Running("qs", "entry")
  /\ ~qsPlyCeiling(Top.ply)
  /\ evaluatePosition(board) >= Top.beta
  /\ Return("standpat", evaluatePosition(board), << >>)
  /\ UNCHANGED << game, probe, rootBoard, maxDepth, board, tables, driver, storeLog, historyCalls >>

\* if (standPat >= beta) return beta;
QsStandPatCutoff ==
  /\ Running("qs", "entry")
  /\ ~qsPlyCeiling(Top.ply)
  /\ evaluatePosition(board) >= Top.beta
  /\ Return("standpat", Top.beta, << >>)
  /\ UNCHANGED << game, probe, rootBoard, maxDepth, board, tables, driver, storeLog, historyCalls >>

QsExpand ==
  /\ Running("qs", "entry")
  /\ ~qsPlyCeiling(Top.ply)
  /\ LET standPat == evaluatePosition(board) IN
       /\ standPat < Top.beta
       /\ stack' = Below \o
            << [Top EXCEPT !.pc = "loop", !.standPat = standPat,
                           !.alpha = Max(Top.alpha, standPat),
                           !.scoredMoves =
                              SortScored(qsScored(board, generateLegalMoves(board), Top.ply)),
                           !.i = 1] >>
  /\ UNCHANGED << game, probe, rootBoard, maxDepth, board, ret, tables, driver, storeLog, historyCalls >>

QsMakeFails ==
  /\ Running("qs", "loop")
  /\ Top.i <= Len(Top.scoredMoves)
  /\ ~makeMoveOk(board, Top.scoredMoves[Top.i].move)
  /\ stack' = Below \o << [Top EXCEPT !.i = Top.i + 1] >>
  /\ UNCHANGED << game, probe, rootBoard, maxDepth, board, ret, tables, driver, storeLog, historyCalls >>

QsSearchMove ==
  /\ Running("qs", "loop")
  /\ Top.i <= Len(Top.scoredMoves)
  /\ LET move == Top.scoredMoves[Top.i].move IN
       /\ makeMoveOk(board, move)
       /\ board' = ApplyMove(board, move)
       /\ \E nb \in NegOutcomes(Top.beta), na \in NegOutcomes(Top.alpha) :
            Call([Top EXCEPT !.pc = "full", !.move = move, !.previousState = board],
                 Frame("qs", ApplyMove(board, move), 0, nb, na, FALSE, Top.ply + 1, move))
  /\ UNCHANGED << game, probe, rootBoard, maxDepth, ret, tables, driver, storeLog, historyCalls >>

\* The board after board.unmakeMove(move, previousState) in frame fr.
unmakeMove(fr) == fr.previousState

\* The beta cutoff leaves before the move is unmade.
QsChildReturnEarlyExit ==
  /\ Running("qs", "full")
  /\ \E score \in NegOutcomes(ret.score) :
       IF score >= Top.beta
         THEN /\ board' = board
              /\ Return("cutoff", Top.beta, << >>)
         ELSE /\ board' = unmakeMove(Top)
              /\ stack' = Below \o
                   << [Top EXCEPT !.pc = "loop", !.move = NullMove, !.i = Top.i + 1,
                                  !.alpha = Max(Top.alpha, score),
                                  !.searched = Append(Top.searched, score)] >>
              /\ UNCHANGED ret
  /\ UNCHANGED << game, probe, rootBoard, maxDepth, tables, driver, storeLog, historyCalls >>

\* int score = -quiescenceSearch(...) has returned: unmake, cut off or go on.
QsChildReturn ==
  /\ Running("qs", "full")
  /\ board' = unmakeMove(Top)
  /\ \E score \in NegOutcomes(ret.score) :
       IF score >= Top.beta
         THEN Return("cutoff", Top.beta, << >>)
         ELSE /\ stack' = Below \o
                   << [Top EXCEPT !.pc = "loop", !.move = NullMove, !.i = Top.i + 1,
                                  !.alpha = Max(Top.alpha, score),
                                  !.searched = Append(Top.searched, score)] >>
              /\ UNCHANGED ret
  /\ UNCHANGED << game, probe, rootBoard, maxDepth, tables, driver, storeLog, historyCalls >>

QsFinish ==
  /\ Running("qs", "loop")
  /\ Top.i > Len(Top.scoredMoves)
  /\ Return("alpha", Top.alpha, << >>)
  /\ UNCHANGED << game, probe, rootBoard, maxDepth, board, tables, driver, storeLog, historyCalls >>

(***************************************************************************)
(* pvSearch                                                                *)
(***************************************************************************)
\* The ceiling test two plies late.
pvPlyCeilingLate(ply) == ply >= MAX_PLY + 1

\* if (ply >= MAX_PLY - 1) return evaluatePosition(board);
pvPlyCeiling(ply) == ply >= MAX_PLY - 1

ttHit(fr) ==
  fr.ply > 0 /\ ttUsable(transpositionTable, hashKeyOf(fr.entryBoard), fr.depth, fr.alpha, fr.beta)

PvProbeHit ==
  /\ Running("pv", "entry")
  /\ ttHit(Top)
  /\ Return("tt", transpositionTable[hashKeyOf(Top.entryBoard)].score, << >>)
  /\ UNCHANGED << game, probe, rootBoard, maxDepth, board, tables, driver, storeLog, historyCalls >>

PvPlyCeiling ==
  /\ Running("pv", "entry")
  /\ ~ttHit(Top)
  /\ pvPlyCeiling(Top.ply)
  /\ Return("ceiling", evaluatePosition(board), << >>)
  /\ UNCHANGED << game, probe, rootBoard, maxDepth, board, tables, driver, storeLog, historyCalls >>

PvQuiescence ==
  /\ Running("pv", "entry")
  /\ ~ttHit(Top)
  /\ ~pvPlyCeiling(Top.ply)
  /\ Top.depth <= 0
  /\ Call([Top EXCEPT !.pc = "delegate"],
          Frame("qs", board, 0, Top.alpha, Top.beta, FALSE, Top.ply, NullMove))
  /\ UNCHANGED << game, probe, rootBoard, maxDepth, board, ret, tables, driver, storeLog, historyCalls >>

PvQuiescenceReturn ==
  /\ Running("pv", "delegate")
  /\ Return("quiescence", ret.score, << >>)
  /\ UNCHANGED << game, probe, rootBoard, maxDepth, board, tables, driver, storeLog, historyCalls >>

\* The score of the game-over tests of pvSearch as a one-element tuple, or the
\* empty tuple when the node has moves to search.
TerminalScore(b, maximizingPlayer, ply) ==
  IF isCheckmate(b) \/ isStalemate(b) THEN << evaluatePosition(b) >>
  ELSE IF generateLegalMoves(b) = << >>
    THEN (IF isInCheck(b)
            THEN (IF maximizingPlayer THEN << -MATE_SCORE + ply >> ELSE << MATE_SCORE - ply >>)
            ELSE << 0 >>)
  ELSE << >>

PvGameOver ==
  /\ Running("pv", "entry")
  /\ ~ttHit(Top)
  /\ ~pvPlyCeiling(Top.ply)
  /\ Top.depth > 0
  /\ TerminalScore(board, Top.maximizingPlayer, Top.ply) # << >>
  /\ Return("terminal", TerminalScore(board, Top.maximizingPlayer, Top.ply)[1], << >>)
  /\ UNCHANGED << game, probe, rootBoard, maxDepth, board, tables, driver, storeLog, historyCalls >>

\* The (score, move) pairs of the legal moves that survive the capture filter.
RECURSIVE pvScored(_, _, _, _, _, _)
pvScored(b, moves, depth, ttMove, ply, lastMove) ==
  IF moves = << >> THEN << >>
  ELSE LET move == Head(moves)
           rest == pvScored(b, Tail(moves), depth, ttMove, ply, lastMove)
       IN IF /\ depth >= 3
             /\ getPieceAt(b, move.to) # NoPiece
             /\ seeCapture(b, move) < -PAWN_VALUE * 2
            THEN rest
            ELSE << [score |-> getMoveScore(move, b, ttMove, ply, getSideToMove(b), lastMove),
                     move |-> move] >> \o rest

nodeExtension(b, depth) ==
  LET check == IF isInCheck(b) THEN 1 ELSE 0
  IN IF Len(generateLegalMoves(b)) = 1 /\ depth >= 2 THEN Max(check, 1) ELSE check

PvExpand ==
  /\ Running("pv", "entry")
  /\ ~ttHit(Top)
  /\ ~pvPlyCeiling(Top.ply)
  /\ Top.depth > 0
  /\ TerminalScore(board, Top.maximizingPlayer, Top.ply) = << >>
  /\ LET legalMoves == generateLegalMoves(board)
         ttMove == ttBestMove(transpositionTable, hashKeyOf(board))
     IN stack' = Below \o
          << [Top EXCEPT !.pc = "loop", !.ttMove = IF Top.ply > 0 THEN ttMove ELSE NullMove,
                         !.extension = nodeExtension(board, Top.depth),
                         !.scoredMoves =
                            SortScored(pvScored(board, legalMoves, Top.depth,
                                                IF Top.ply > 0 THEN ttMove ELSE NullMove,
                                                Top.ply, Top.lastMove)),
                         !.i = 1,
                         !.bestEval = IF Top.maximizingPlayer THEN INT_MIN ELSE INT_MAX,
                         !.localBestMove = legalMoves[1],
                         !.foundPV = FALSE, !.nodeType = "ALPHA"] >>
  /\ UNCHANGED << game, probe, rootBoard, maxDepth, board, ret, tables, driver, storeLog, historyCalls >>

\* moveExtensionOf with the extensions added up.
moveExtensionOfAdded(b, move, extension, lastMove) ==
  LET recapture == IF isValid(lastMove.to) /\ move.to = lastMove.to THEN 1 ELSE 0
      piece == getPieceAt(b, move.from)
      destRow == IF getSideToMove(b) = "WHITE" THEN 6 ELSE 1
      pawnPush == IF piece.type = "PAWN" /\ RowOf(move.to) = destRow THEN 1 ELSE 0
  IN extension + recapture + pawnPush

\* The per-move extension: recapture on lastMove's square, pawn to the 7th rank.
moveExtensionOf(b, move, extension, lastMove) ==
  LET recapture == IF isValid(lastMove.to) /\ move.to = lastMove.to THEN 1 ELSE 0
      piece == getPieceAt(b, move.from)
      destRow == IF getSideToMove(b) = "WHITE" THEN 6 ELSE 1
      pawnPush == IF piece.type = "PAWN" /\ RowOf(move.to) = destRow THEN 1 ELSE 0
  IN Max(Max(extension, recapture), pawnPush)

\* newDepth of the maximizing loop: computed, floored at 0.
newDepthOf(fr, b, move) ==
  LET depthAdjustment ==
        IF ~fr.foundPV /\ fr.i > 1
          THEN getDepthAdjustment(move, b, isPVMove(move, principalVariation, fr.ply), fr.i - 1)
          ELSE 0
  IN Max(0, fr.depth - 1 + moveExtensionOf(b, move, fr.extension, fr.lastMove) + depthAdjustment)

PvMakeFails ==
  /\ Running("pv", "loop")
  /\ Top.i <= Len(Top.scoredMoves)
  /\ ~makeMoveOk(board, Top.scoredMoves[Top.i].move)
  /\ stack' = Below \o << [Top EXCEPT !.i = Top.i + 1] >>
  /\ UNCHANGED << game, probe, rootBoard, maxDepth, board, ret, tables, driver, storeLog, historyCalls >>

\* The depth the recursive pvSearch calls of frame fr pass on.
childDepthOf(fr) == fr.depth - 1 + fr.moveExtension

\* PvSearchMove with the bounds of the null window exchanged.
PvSearchMoveSwappedNull ==
  /\ Running("pv", "loop")
  /\ Top.i <= Len(Top.scoredMoves)
  /\ LET move == Top.scoredMoves[Top.i].move
         fr == [Top EXCEPT !.move = move, !.previousState = board,
                           !.moveExtension =
                              moveExtensionOf(board, move, Top.extension, Top.lastMove),
                           !.newDepth = IF Top.maximizingPlayer
                                          THEN newDepthOf(Top, board, move) ELSE 0]
     IN /\ makeMoveOk(board, move)
        /\ board' = ApplyMove(board, move)
        /\ \E na \in NegOutcomes(fr.alpha), nb \in NegOutcomes(fr.beta) :
             IF fr.foundPV
               THEN Call([fr EXCEPT !.pc = "null"],
                         Frame("pv", ApplyMove(board, move), childDepthOf(fr), na, na - 1,
                               ~fr.maximizingPlayer, fr.ply + 1, move))
               ELSE Call([fr EXCEPT !.pc = "full"],
                         Frame("pv", ApplyMove(board, move), childDepthOf(fr), nb, na,
                               ~fr.maximizingPlayer, fr.ply + 1, move))
  /\ UNCHANGED << game, probe, rootBoard, maxDepth, ret, tables, driver, storeLog, historyCalls >>

PvSearchMove ==
  /\ Running("pv", "loop")
  /\ Top.i <= Len(Top.scoredMoves)
  /\ LET move == Top.scoredMoves[Top.i].move
         fr == [Top EXCEPT !.move = move, !.previousState = board,
                           !.moveExtension =
                              moveExtensionOf(board, move, Top.extension, Top.lastMove),
                           !.newDepth = IF Top.maximizingPlayer
                                          THEN newDepthOf(Top, board, move) ELSE 0]
     IN /\ makeMoveOk(board, move)
        /\ board' = ApplyMove(board, move)
        /\ \E na \in NegOutcomes(fr.alpha), nb \in NegOutcomes(fr.beta) :
             IF fr.foundPV
               THEN Call([fr EXCEPT !.pc = "null"],
                         Frame("pv", ApplyMove(board, move), childDepthOf(fr), na - 1, na,
                               ~fr.maximizingPlayer, fr.ply + 1, move))
               ELSE Call([fr EXCEPT !.pc = "full"],
                         Frame("pv", ApplyMove(board, move), childDepthOf(fr), nb, na,
                               ~fr.maximizingPlayer, fr.ply + 1, move))
  /\ UNCHANGED << game, probe, rootBoard, maxDepth, ret, tables, driver, storeLog, historyCalls >>

\* The null-window result lies inside the window: search the move again.
PvResearch ==
  /\ Running("pv", "null")
  /\ \E eval \in NegOutcomes(ret.score) :
       /\ eval > Top.alpha /\ eval < Top.beta
       /\ \E na \in NegOutcomes(Top.alpha), nb \in NegOutcomes(Top.beta) :
            Call([Top EXCEPT !.pc = "full"],
                 Frame("pv", board, childDepthOf(Top), nb, na,
                       ~Top.maximizingPlayer, Top.ply + 1, Top.move))
  /\ UNCHANGED << game, probe, rootBoard, maxDepth, board, ret, tables, driver, storeLog, historyCalls >>

\* The frame after eval, the negated result of the child search of fr.move,
\* has been compared with the best so far and with the window.
absorbEval(fr, eval, childPV) ==
  LET better == IF fr.maximizingPlayer THEN eval > fr.bestEval ELSE eval < fr.bestEval
      best == IF better
                THEN [fr EXCEPT !.bestEval = eval, !.localBestMove = fr.move,
                                !.pv = << fr.move >> \o childPV, !.foundPV = TRUE]
                ELSE fr
      bounded == IF fr.maximizingPlayer
                   THEN [best EXCEPT !.alpha = Max(fr.alpha, eval)]
                   ELSE [best EXCEPT !.beta = Min(fr.beta, eval)]
  IN IF bounded.beta <= bounded.alpha
       THEN [bounded EXCEPT !.pc = "store",
                            !.nodeType = IF fr.maximizingPlayer THEN "BETA" ELSE "ALPHA"]
       ELSE [bounded EXCEPT !.pc = "loop", !.i = fr.i + 1]

\* The child search of Top.move has returned for good: unmake the move, take
\* the score in, and on a cutoff by a quiet move update the ordering tables.
PvChildReturn ==
  /\ \/ Running("pv", "full")
     \/ Running("pv", "null")
  /\ \E eval \in NegOutcomes(ret.score) :
       /\ Top.pc = "null" => ~(eval > Top.alpha /\ eval < Top.beta)
       /\ LET restored == unmakeMove(Top)
              fr == [absorbEval(Top, eval, ret.pv) EXCEPT !.move = NullMove]
              quietCutoff == fr.pc = "store" /\ getPieceAt(restored, Top.move.to) = NoPiece
          IN /\ board' = restored
             /\ stack' = Below \o << fr >>
             /\ killerMoves' =
                  IF quietCutoff THEN storeKillerMove(killerMoves, Top.move, Top.ply)
                  ELSE killerMoves
             /\ storeLog' =
                  IF quietCutoff /\ Top.ply < MAX_PLY
                    THEN [storeLog EXCEPT ![Top.ply] = Append(@, Top.move)]
                    ELSE storeLog
             /\ historyTable' =
                  IF quietCutoff
                    THEN updateHistoryScore(historyTable, Top.move, Top.depth,
                                            getSideToMove(restored))
                    ELSE historyTable
             /\ historyCalls' =
                  IF quietCutoff
                    THEN [n |-> historyCalls.n + 1, move |-> Top.move, depth |-> Top.depth,
                          color |-> getSideToMove(restored), before |-> historyTable]
                    ELSE historyCalls
             /\ counterMoves' =
                  IF quietCutoff /\ isValid(Top.lastMove.from) /\ isValid(Top.lastMove.to)
                    THEN storeCounterMove(counterMoves, rootBoard, Top.lastMove, Top.move)
                    ELSE counterMoves
  /\ UNCHANGED << game, probe, rootBoard, maxDepth, ret, transpositionTable, driver >>

\* The classification the node is stored with.
storedType(fr) ==
  IF fr.bestEval > fr.originalAlpha /\ fr.bestEval < fr.beta THEN "EXACT" ELSE fr.nodeType

PvFinish ==
  /\ \/ Running("pv", "loop") /\ Top.i > Len(Top.scoredMoves)
     \/ Running("pv", "store")
  /\ transpositionTable' =
       ttStore(transpositionTable, hashKeyOf(Top.entryBoard), Top.depth, Top.bestEval,
               storedType(Top), Top.localBestMove)
  /\ Return("searched", Top.bestEval, Top.pv)
  /\ UNCHANGED << game, probe, rootBoard, maxDepth, board, killerMoves, counterMoves, historyTable,
                  driver, storeLog, historyCalls >>

(***************************************************************************)
(* iterativeDeepeningSearch                                                *)
(***************************************************************************)
NoHistoryCall ==
  [n |-> 0, move |-> NullMove, depth |-> 0, color |-> "WHITE", before |-> << >>]

NoReturn ==
  [ fn |-> "none", kind |-> "none",
    board |-> [pieces |-> << >>, side |-> "WHITE", ep |-> NoSq], depth |-> 0,
    alpha |-> 0, beta |-> 0, ply |-> 0, maximizingPlayer |-> FALSE, score |-> 0,
    pv |-> << >> ]

NoProbe == [fn |-> "none"]

\* A fresh engine about to search the board of its game.
FreshEngine ==
  /\ board = rootBoard
  /\ stack = << >>
  /\ ret = NoReturn
  /\ transpositionTable = << >>
  /\ killerMoves = EmptyKillers
  /\ counterMoves = << >>
  /\ historyTable = << >>
  /\ principalVariation = << >>
  /\ pvTable = EmptyPvTable
  /\ idsPc = "loop"
  /\ idsDepth = 1
  /\ bestMove = NullMove
  /\ bestScore = 0
  /\ rootCalls = << >>
  /\ rootResults = << >>
  /\ storeLog = [p \in Plies |-> << >>]
  /\ historyCalls = NoHistoryCall
  /\ probe = NoProbe

Init ==
  /\ \E g \in GameIds, side \in {"WHITE", "BLACK"} :
       /\ game = Games[g]
       /\ ~KingInCheck(StartBoard(g, side), Other(side))
       /\ rootBoard = StartBoard(g, side)
  /\ maxDepth \in 0 .. MaxDepth
  /\ FreshEngine

\* for (depth = 1; depth <= maxDepth; depth++): the root call of one depth.
IdsSearch ==
  /\ idsPc = "loop"
  /\ idsDepth <= maxDepth
  /\ stack' = << Frame("pv", board, idsDepth, -INF_SCORE, INF_SCORE,
                       getSideToMove(board) = "WHITE", 0, NullMove) >>
  /\ rootCalls' = Append(rootCalls, idsDepth)
  /\ idsPc' = "search"
  /\ UNCHANGED << game, probe, rootBoard, maxDepth, board, ret, tables, idsDepth, bestMove, bestScore,
                  principalVariation, pvTable, rootResults, storeLog, historyCalls >>

\* The root call has returned: record its PV when it has one.
IdsDepthDone ==
  /\ idsPc = "search"
  /\ stack = << >>
  /\ IF ret.pv # << >>
       THEN /\ bestMove' = ret.pv[1]
            /\ bestScore' = ret.score
            /\ principalVariation' = ret.pv
            /\ pvTable' = storePV(pvTable, idsDepth, ret.pv)
       ELSE UNCHANGED << bestMove, bestScore, principalVariation, pvTable >>
  /\ rootResults' = Append(rootResults, [score |-> ret.score, pv |-> ret.pv])
  /\ idsDepth' = idsDepth + 1
  /\ idsPc' = "loop"
  /\ UNCHANGED << game, probe, rootBoard, maxDepth, board, stack, ret, tables, rootCalls, storeLog,
                  historyCalls >>

\* The loop gives up one depth early.
IdsReturnEarly ==
  /\ idsPc = "loop"
  /\ idsDepth >= maxDepth
  /\ idsPc' = "done"
  /\ UNCHANGED << game, probe, rootBoard, maxDepth, board, stack, ret, tables, idsDepth, bestMove,
                  bestScore, principalVariation, pvTable, rootCalls, rootResults, storeLog,
                  historyCalls >>

\* return bestMove
IdsReturn ==
  /\ idsPc = "loop"
  /\ idsDepth > maxDepth
  /\ idsPc' = "done"
  /\ UNCHANGED << game, probe, rootBoard, maxDepth, board, stack, ret, tables, idsDepth, bestMove,
                  bestScore, principalVariation, pvTable, rootCalls, rootResults, storeLog,
                  historyCalls >>

Next ==
  \/ IdsSearch \/ IdsDepthDone \/ IdsReturn
  \/ PvProbeHit \/ PvPlyCeiling \/ PvQuiescence \/ PvQuiescenceReturn \/ PvGameOver
  \/ PvExpand \/ PvMakeFails \/ PvSearchMove \/ PvResearch \/ PvChildReturn \/ PvFinish
  \/ QsPlyCeiling \/ QsStandPatCutoff \/ QsExpand \/ QsMakeFails \/ QsSearchMove
  \/ QsChildReturn \/ QsFinish

Spec == Init /\ [][Next]_vars

(***************************************************************************)
(* Properties of the search                                                *)
(***************************************************************************)
MaxOf(S) == CHOOSE x \in S : \A y \in S : y <= x

\* Full-width search of b to the given depth, without window, ordering or
\* filter, valued for the side to move: a mated side gets -(100000 - ply), a
\* stalemated side 0, a leaf its static evaluation.
RECURSIVE Minimax(_, _, _)
Minimax(b, depth, ply) ==
  LET moves == generateLegalMoves(b) IN
    IF moves = << >> THEN (IF isInCheck(b) THEN -(MATE_SCORE - ply) ELSE 0)
    ELSE IF depth = 0 THEN evaluatePosition(b)
    ELSE MaxOf({ -Minimax(ApplyMove(b, moves[i]), depth - 1, ply + 1) :
                 i \in 1 .. Len(moves) })

\* Every position within depth plies of b has a move, none of them a capture
\* and none refused by the board: quiescence at the leaves is the static
\* evaluation and no mate or stalemate score is involved.
RECURSIVE Plain(_, _)
Plain(b, depth) ==
  LET moves == generateLegalMoves(b) IN
    /\ moves # << >>
    /\ \A i \in 1 .. Len(moves) :
         /\ getPieceAt(b, moves[i].to) = NoPiece
         /\ makeMoveOk(b, moves[i])
         /\ depth >= 1 => Plain(ApplyMove(b, moves[i]), depth - 1)

\* The root call of the current depth has returned.
RootReturned == idsPc = "search" /\ stack = << >>

\* C1: the score the root pvSearch returns equals the score of a full-width
\* minimax search of the same depth over the same moves with the same leaf
\* evaluation (for Black to move: in either sign convention).
C1_PvsEqualsMinimax ==
  (RootReturned /\ Plain(rootBoard, ret.depth)) =>
     LET m == Minimax(rootBoard, ret.depth, 0) IN
       IF getSideToMove(rootBoard) = "WHITE" THEN ret.score = m
       ELSE ret.score \in {m, -m}

\* C2: every invocation on the call stack has ply <= MAX_PLY - 1; the root has
\* ply 0; a call made after a move passes ply + 1 (the hand-over of a depth <= 0
\* node to quiescenceSearch keeps the ply); an invocation with a callee is
\* below the ceiling; and an invocation at the ceiling returns the static
\* evaluation, unless the transposition probe of pvSearch answered first.
C2_PlyBounded ==
  /\ \A k \in 1 .. Len(stack) : stack[k].ply >= 0 /\ stack[k].ply <= MAX_PLY - 1
  /\ Len(stack) > 0 => stack[1].ply = 0
  /\ \A k \in 1 .. Len(stack) - 1 :
       /\ stack[k].ply < MAX_PLY - 1
       /\ stack[k].pc \in {"null", "full", "delegate"}
       /\ stack[k].pc \in {"null", "full"} => stack[k + 1].ply = stack[k].ply + 1
       /\ stack[k].pc = "delegate" => stack[k + 1].ply = stack[k].ply
  /\ (ret.fn # "none" /\ ret.ply >= MAX_PLY - 1) =>
       /\ ret.kind \in {"ceiling", "tt"}
       /\ ret.kind = "ceiling" => ret.score = evaluatePosition(ret.board)
       /\ ret.kind = "tt" => ret.fn = "pv"

\* A pvSearch invocation at the ceiling has returned below a chain of nodes
\* every one of which extended its move by one ply.
C2_Witness ==
  /\ ret.fn = "pv" /\ ret.kind = "ceiling" /\ ret.ply = MAX_PLY - 1
  /\ Len(stack) = MAX_PLY - 1
  /\ \A k \in 2 .. Len(stack) : stack[k].moveExtension = 1

\* The depths whose root search handed back a principal variation.
DepthsWithPV == { d \in 1 .. Len(rootResults) : rootResults[d].pv # << >> }

\* C3: the root pvSearch is invoked once per depth 1, 2, ..., maxDepth in
\* increasing order and the driver returns only after the last of them; the
\* recorded best move, best score and principal variation are those of the
\* greatest completed depth with a non-empty PV, and the null move, 0 and the
\* empty line when there is none.
C3_Driver ==
  /\ rootCalls = [i \in 1 .. Len(rootCalls) |-> i]
  /\ Len(rootCalls) <= maxDepth
  /\ Len(rootResults) = (IF idsPc = "search" THEN Len(rootCalls) - 1 ELSE Len(rootCalls))
  /\ idsPc = "done" => Len(rootCalls) = maxDepth
  /\ IF DepthsWithPV = {}
       THEN bestMove = NullMove /\ bestScore = 0 /\ principalVariation = << >>
       ELSE LET d == MaxOf(DepthsWithPV) IN
              /\ bestMove = rootResults[d].pv[1]
              /\ bestScore = rootResults[d].score
              /\ principalVariation = rootResults[d].pv

\* The driver has returned the first move of the deepest search.
C3_Witness ==
  /\ idsPc = "done" /\ maxDepth = MaxDepth
  /\ Len(rootCalls) = MaxDepth
  /\ bestMove # NullMove /\ bestMove = rootResults[MaxDepth].pv[1]

\* The side to move has a move that checkmates at once.
HasMateInOne(b) ==
  \E i \in 1 .. Len(generateLegalMoves(b)) :
     isCheckmate(ApplyMove(b, generateLegalMoves(b)[i]))

\* C4: with maxDepth = 1, from a position with a mate in one, the driver
\* returns a checkmating move and the root score is 100000 - 1 in favour of
\* the side to move.
C4_MateInOne ==
  (idsPc = "done" /\ maxDepth = 1 /\ HasMateInOne(rootBoard)) =>
     /\ bestMove # NullMove
     /\ isCheckmate(ApplyMove(rootBoard, bestMove))
     /\ IF getSideToMove(rootBoard) = "WHITE" THEN bestScore = MATE_SCORE - 1
        ELSE bestScore \in {MATE_SCORE - 1, -(MATE_SCORE - 1)}

\* C5: pvSearch entered with depth >= 1 below the ply ceiling, without a
\* transposition hit, on a checkmated position returns a score of magnitude
\* 100000 - ply.
C5_MateDistance ==
  (ret.fn = "pv" /\ ret.kind = "terminal" /\ isCheckmate(ret.board)) =>
     ret.score \in {MATE_SCORE - ret.ply, -(MATE_SCORE - ret.ply)}

\* C6 as stated: on a stalemate position evaluatePosition is 0 and pvSearch
\* returns 0 for every remaining depth and every window.
C6_StalemateZero ==
  (ret.fn = "pv" /\ isStalemate(ret.board)) =>
     evaluatePosition(ret.board) = 0 /\ ret.score = 0

\* C6: on a stalemate position evaluatePosition is 0; pvSearch returns 0 when
\* it has depth >= 1 or stands at the ply ceiling; with depth <= 0 it hands
\* over to quiescenceSearch, whose fail-hard result is 0 brought into the
\* window: beta when beta <= 0, alpha when alpha > 0, else 0.
C6_StalemateClamped ==
  (ret.fn # "none" /\ isStalemate(ret.board)) =>
     /\ evaluatePosition(ret.board) = 0
     /\ ret.kind \in {"terminal", "ceiling", "quiescence", "standpat", "alpha"}
     /\ ret.kind \in {"terminal", "ceiling"} => ret.score = 0
     /\ ret.kind = "terminal" => ret.depth >= 1
     /\ ret.kind \in {"quiescence", "standpat", "alpha"} =>
          /\ ret.depth <= 0
          /\ ret.score = (IF ret.beta <= 0 THEN ret.beta ELSE Max(ret.alpha, 0))

\* pvSearch with depth <= 0 has answered a stalemate with a bound of its
\* window instead of 0.
C6_Witness ==
  /\ ret.fn = "pv" /\ ret.kind = "quiescence" /\ isStalemate(ret.board)
  /\ ret.alpha < ret.beta /\ ret.score # 0

\* C7: the board a search invocation returns with is the board it was entered
\* with: a frame that is not waiting for a callee sees its entry board, a frame
\* waiting for the search of a move sees exactly that move made on its entry
\* board and holds the entry board as the saved state, and the board is the
\* root board whenever no search is running.
C7_BoardRestored ==
  /\ stack = << >> => board = rootBoard
  /\ RootReturned => ret.board = rootBoard
  /\ \A k \in 1 .. Len(stack) :
       LET fr == stack[k]
           seen == IF k = Len(stack) THEN board ELSE stack[k + 1].entryBoard
       IN /\ fr.pc \in {"null", "full"} =>
               /\ makeMoveOk(fr.entryBoard, fr.move)
               /\ fr.previousState = fr.entryBoard
               /\ seen = ApplyMove(fr.entryBoard, fr.move)
          /\ fr.pc \notin {"null", "full"} => seen = fr.entryBoard
          /\ (k = Len(stack) /\ fr.pc \in {"null", "full", "delegate"}) => ret.board = board

\* quiescenceSearch has left through its beta cutoff after searching a capture.
C7_Witness ==
  /\ ret.fn = "qs" /\ ret.kind = "cutoff"
  /\ Len(stack) > 0 /\ board = ret.board

(***************************************************************************)
(* The killer table on its own: storeKillerMove on any moves at any plies  *)
(***************************************************************************)
KillerCandidates == { Mv(57, 42), Mv(57, 40), Mv(1, 18) }

KillerPlies == { 0, 1, MAX_PLY - 1, MAX_PLY }

RECURSIVE TotalStored(_)
TotalStored(plies) ==
  IF plies = {} THEN 0
  ELSE LET p == CHOOSE q \in plies : TRUE IN Len(storeLog[p]) + TotalStored(plies \ {p})

TablesInit ==
  /\ game = Games[1]
  /\ rootBoard = StartBoard(1, "WHITE")
  /\ maxDepth = 0
  /\ FreshEngine

StoreKiller ==
  /\ TotalStored(Plies) < MaxKillerCalls
  /\ \E move \in KillerCandidates, ply \in KillerPlies :
       /\ killerMoves' = storeKillerMove(killerMoves, move, ply)
       /\ storeLog' = IF ply < MAX_PLY THEN [storeLog EXCEPT ![ply] = Append(@, move)]
                      ELSE storeLog
  /\ UNCHANGED << game, probe, rootBoard, maxDepth, board, stack, ret, transpositionTable, counterMoves,
                  historyTable, driver, historyCalls >>

SpecKiller == TablesInit /\ [][StoreKiller]_vars

\* The most recent move of log that differs from move, or the null move.
RECURSIVE LastDiffering(_, _)
LastDiffering(log, move) ==
  IF log = << >> THEN NullMove
  ELSE IF ~SameMove(log[Len(log)], move) THEN log[Len(log)]
  ELSE LastDiffering(SubSeq(log, 1, Len(log) - 1), move)

\* C8: at every ply, slot 0 holds the move stored last at that ply and slot 1
\* the most recently stored move that differs from it (the null move while
\* there is none); the slots of a ply depend on the stores at that ply alone,
\* so storing the move of slot 0 again, or storing at another ply, changes
\* neither slot, and of three or more distinct moves only the two most recent
\* are kept, most recent first.
C8_KillerSlots ==
  \A p \in Plies :
     LET log == storeLog[p] IN
       /\ killerMoves[p][1] = (IF log = << >> THEN NullMove ELSE log[Len(log)])
       /\ killerMoves[p][2] = LastDiffering(log, killerMoves[p][1])

\* Three distinct moves were stored at one ply, the last of them twice.
C8_Witness ==
  \E p \in Plies :
     LET log == storeLog[p] IN
       /\ Len(log) = 4
       /\ log[1] # log[2] /\ log[1] # log[3] /\ log[2] # log[3] /\ log[3] = log[4]
       /\ killerMoves[p] = << log[3], log[2] >>

(***************************************************************************)
(* The history table on its own: updateHistoryScore from the zero table    *)
(***************************************************************************)
HistoryMoves == { Mv(57, 42), Mv(57, 40) }

HistoryDepths == { 1, 2, MAX_PLY - 1 }

UpdateHistory ==
  /\ historyCalls.n < MaxHistoryCalls
  /\ \E move \in HistoryMoves, depth \in HistoryDepths, color \in {"WHITE", "BLACK"} :
       /\ historyTable' = updateHistoryScore(historyTable, move, depth, color)
       /\ historyCalls' = [n |-> historyCalls.n + 1, move |-> move, depth |-> depth,
                           color |-> color, before |-> historyTable]
  /\ UNCHANGED << game, probe, rootBoard, maxDepth, board, stack, ret, transpositionTable, killerMoves,
                  counterMoves, driver, storeLog >>

SpecHistory == TablesInit /\ [][UpdateHistory]_vars

\* The entry the last call addressed, and the value the += bonus gave it.
LastKey == HistoryKey(historyCalls.move, historyCalls.color)

Raised == HistoryAt(historyCalls.before, LastKey) + historyCalls.depth * historyCalls.depth

\* The entries after the increment of the last call, before any rescale.
Bumped(k) == IF k = LastKey THEN Raised ELSE HistoryAt(historyCalls.before, k)

HistoryKeys == DOMAIN historyTable \cup DOMAIN historyCalls.before \cup {LastKey}

\* The last call rescaled the table.
Rescaled == historyCalls.n > 0 /\ Raised > HISTORY_CEILING

\* C9: after every updateHistoryScore call the addressed entry has grown by
\* depth * depth and then, if it exceeded 10000, every entry has been halved
\* once; every entry lies in 0..10000 and no value passes the int range.
C9_HistoryBounded ==
  /\ \A k \in DOMAIN historyTable : historyTable[k] >= 0 /\ historyTable[k] <= HISTORY_CEILING
  /\ historyCalls.n > 0 =>
       /\ Raised <= INT_MAX
       /\ \A k \in HistoryKeys :
            HistoryAt(historyTable, k) =
              (IF Raised > HISTORY_CEILING THEN Bumped(k) \div 2 ELSE Bumped(k))

\* The call that crossed the ceiling halved the addressed entry and another
\* nonzero one.
C9_Witness ==
  /\ Rescaled
  /\ historyTable[LastKey] = Raised \div 2
  /\ \E k \in DOMAIN historyTable : k # LastKey /\ historyTable[k] > 0

\* C10 as stated: two nonzero entries with a > b before the halving are still
\* in strict order after it.
C10_StrictOrderKept ==
  Rescaled =>
     \A k1, k2 \in HistoryKeys :
        (Bumped(k1) > Bumped(k2) /\ Bumped(k2) > 0) =>
           HistoryAt(historyTable, k1) > HistoryAt(historyTable, k2)

\* C10: the halving keeps the order of two nonzero entries a > b weakly; it
\* keeps it strictly exactly when a >= b + 2 or b is odd, and makes the two
\* equal when a = b + 1 and b is even.
C10_OrderWeaklyKept ==
  Rescaled =>
     \A k1, k2 \in HistoryKeys :
        (Bumped(k1) > Bumped(k2) /\ Bumped(k2) > 0) =>
           /\ HistoryAt(historyTable, k1) >= HistoryAt(historyTable, k2)
           /\ HistoryAt(historyTable, k1) > HistoryAt(historyTable, k2)
                <=> (Bumped(k1) >= Bumped(k2) + 2 \/ Bumped(k2) % 2 = 1)

\* The halving has made two distinct nonzero entries equal.
C10_Witness ==
  /\ Rescaled
  /\ \E k1, k2 \in HistoryKeys :
        /\ Bumped(k1) > Bumped(k2) /\ Bumped(k2) > 0
        /\ HistoryAt(historyTable, k1) = HistoryAt(historyTable, k2)

(***************************************************************************)
(* Exchange evaluation against the exchange played out                     *)
(***************************************************************************)
\* The squares of the pieces of colour side that can capture on square.
Recapturers(b, square, side) ==
  { p \in DOMAIN b.pieces : b.pieces[p].color = side /\ square \in PieceLegalMoves(b, p) }

\* What side wins on square when it may recapture there: its least valuable
\* attacker takes, leaves its own square, and the other side answers in the
\* same way; side declines when taking would lose material.
RECURSIVE ExchangeGain(_, _, _)
ExchangeGain(b, square, side) ==
  LET from == Recapturers(b, square, side) IN
    IF from = {} THEN 0
    ELSE LET a == CHOOSE p \in from :
                    \A q \in from : getPieceValue(b.pieces[p].type)
                                      <= getPieceValue(b.pieces[q].type)
             taken == getPieceValue(getPieceAt(b, square).type)
         IN Max(0, taken - ExchangeGain(ApplyMove(b, Mv(a, square)), square, Other(side)))

\* The material outcome of the capture move with the whole exchange played.
ExchangeByHand(b, move) ==
  IF getPieceAt(b, move.to) = NoPiece THEN 0
  ELSE getPieceValue(getPieceAt(b, move.to).type)
         - ExchangeGain(ApplyMove(b, move), move.to, Other(getPieceAt(b, move.from).color))

\* The moves a node that has scored its moves called seeCapture on.
ScoredNode == Len(stack) > 0 /\ Top.pc = "loop" /\ Top.entryBoard = board

NodeMoves == { generateLegalMoves(board)[i] : i \in 1 .. Len(generateLegalMoves(board)) }

\* C11: seeCapture is 0 for every non-capture and, for every capture, the
\* material outcome of the full exchange on the destination square: least
\* valuable attackers alternate, each is used once, and a side stops when
\* recapturing would lose material.
C11_SeeIsExchange ==
  ScoredNode =>
    \A move \in NodeMoves : seeCapture(board, move) = ExchangeByHand(board, move)

\* C11, the part that holds: a non-capture is worth 0.
C11_QuietIsZero ==
  ScoredNode =>
    \A move \in NodeMoves : getPieceAt(board, move.to) = NoPiece => seeCapture(board, move) = 0

(***************************************************************************)
(* Static evaluation of a position and of its colour-flipped mirror        *)
(***************************************************************************)
\* The square mirrored in the horizontal axis of the board.
MirrorSq(sq) == IF sq = NoSq THEN NoSq ELSE Sq(7 - RowOf(sq), ColOf(sq))

\* The position with every piece on its mirrored square under the other
\* colour and the other side to move.
MirrorBoard(b) ==
  [ pieces |-> [ s \in { MirrorSq(q) : q \in DOMAIN b.pieces } |->
                   Pc(b.pieces[MirrorSq(s)].type, Other(b.pieces[MirrorSq(s)].color)) ],
    side |-> Other(b.side),
    ep |-> MirrorSq(b.ep) ]

\* The game whose pieces move as the mirrored pieces of gm do.
MirrorGame(gm) ==
  [ rules |-> [ i \in DOMAIN gm.rules |->
                  R(gm.rules[i].type, MirrorSq(gm.rules[i].from), MirrorSq(gm.rules[i].to),
                    { MirrorSq(v) : v \in gm.rules[i].via }, gm.rules[i].kind) ],
    pieces |-> MirrorBoard([pieces |-> gm.pieces, side |-> "WHITE", ep |-> NoSq]).pieces,
    refuse |-> { Mv(MirrorSq(m.from), MirrorSq(m.to)) : m \in gm.refuse } ]

\* A legal move is played on the board.
PlayMove ==
  /\ \E i \in 1 .. Len(generateLegalMoves(board)) :
       LET move == generateLegalMoves(board)[i] IN
         /\ makeMoveOk(board, move)
         /\ board' = ApplyMove(board, move)
  /\ ret' = NoReturn
  /\ UNCHANGED << game, probe, rootBoard, maxDepth, stack, tables, driver, storeLog, historyCalls >>

\* evaluatePosition(board) is taken and the position is replaced by its
\* colour-flipped mirror, in the mirrored game.
EvaluateMirror ==
  /\ ~isCheckmate(board) /\ ~isStalemate(board)
  /\ ret' = [NoReturn EXCEPT !.fn = "evaluatePosition", !.kind = "mirror",
                             !.board = board, !.score = evaluatePosition(board)]
  /\ board' = MirrorBoard(board)
  /\ game' = MirrorGame(game)
  /\ UNCHANGED << probe, rootBoard, maxDepth, stack, tables, driver, storeLog, historyCalls >>

PositionsInit == Init /\ maxDepth = 0

SpecMirror == PositionsInit /\ [][PlayMove \/ EvaluateMirror]_vars

\* C12 (as the code has it): for a position that is neither checkmate nor
\* stalemate, evaluatePosition of the colour-flipped mirror (pieces mirrored,
\* colours swapped, side to move swapped) equals evaluatePosition of the
\* position: the score is taken from the mover's point of view, and the mover
\* of the mirror owns the mirrored army.
C12_MirrorSame ==
  ret.kind = "mirror" => evaluatePosition(board) = ret.score

\* C12 (as stated): evaluatePosition of the colour-flipped mirror is the
\* negation of evaluatePosition of the position.
C12_MirrorNegated ==
  ret.kind = "mirror" => evaluatePosition(board) = -ret.score

C12_Witness ==
  /\ ret.kind = "mirror" /\ ret.score # 0
  /\ board = MirrorBoard(ret.board)
  /\ evaluatePosition(board) = ret.score

(***************************************************************************)
(* The ordering keys of getMoveScore                                       *)
(***************************************************************************)
\* The rank of the first test of getMoveScore that move passes: 8 the
\* transposition-table move, 7 a PV move, 6 a capture seeCapture finds
\* winning, 5 any other capture, 4 the counter move, 3 and 2 the killer
\* slots, 1 a move left to its history score.
BandOf(move, b, ttMove, ply, lastMove) ==
  LET counter == getCounterMove(counterMoves, rootBoard, lastMove) IN
    IF isValid(ttMove.from) /\ isValid(ttMove.to) /\ SameMove(ttMove, move) THEN 8
    ELSE IF \E d \in 1 .. maxDepth : isPVMove(move, pvTable[d], ply) THEN 7
    ELSE IF getPieceAt(b, move.to) # NoPiece /\ seeCapture(b, move) > 0 THEN 6
    ELSE IF getPieceAt(b, move.to) # NoPiece THEN 5
    ELSE IF /\ isValid(lastMove.from) /\ isValid(lastMove.to)
            /\ isValid(counter.from) /\ isValid(counter.to) /\ SameMove(counter, move) THEN 4
    ELSE IF ply < MAX_PLY /\ SameMove(killerMoves[ply][1], move) THEN 3
    ELSE IF ply < MAX_PLY /\ SameMove(killerMoves[ply][2], move) THEN 2
    ELSE 1

\* A pvSearch node that has scored the moves of the board.
PvScoredNode == Running("pv", "loop") /\ Top.entryBoard = board

\* The transposition-table moves getMoveScore is tried with at a node.
TtMoves == NodeMoves \cup {NullMove, Top.ttMove}

\* C13: with the killer, counter-move and history tables as the search has
\* left them, every capture has a key above that of every quiet move that is
\* neither the TT move nor a PV move, and the bands are strictly ordered:
\* TT move > PV move > winning capture > other capture > counter move >
\* first killer > second killer > history score.
C13_BandsOrdered ==
  PvScoredNode =>
    \A ttMove \in TtMoves : \A m1, m2 \in NodeMoves :
      LET s1 == getMoveScore(m1, board, ttMove, Top.ply, getSideToMove(board), Top.lastMove)
          s2 == getMoveScore(m2, board, ttMove, Top.ply, getSideToMove(board), Top.lastMove)
          b1 == BandOf(m1, board, ttMove, Top.ply, Top.lastMove)
          b2 == BandOf(m2, board, ttMove, Top.ply, Top.lastMove)
      IN /\ (getPieceAt(board, m1.to) # NoPiece /\ getPieceAt(board, m2.to) = NoPiece
               /\ b2 < 7) => s1 > s2
         /\ b1 > b2 => s1 > s2
         /\ \A attacker, victim \in {"PAWN", "KNIGHT", "BISHOP", "ROOK", "QUEEN", "KING"} :
              /\ 3000000 + getMVVLVAScore(attacker, victim) < 4000000 + 1
              /\ 3000000 + getMVVLVAScore(attacker, victim) > 2500000

\* A node with a capture and a quiet killer move to order.
C13_Witness ==
  /\ PvScoredNode
  /\ \E c, k \in NodeMoves :
       /\ BandOf(c, board, Top.ttMove, Top.ply, Top.lastMove) = 6
       /\ BandOf(k, board, Top.ttMove, Top.ply, Top.lastMove) \in {2, 3}
       /\ getPieceAt(board, c.to) # NoPiece /\ getPieceAt(board, k.to) = NoPiece
       /\ getMoveScore(c, board, Top.ttMove, Top.ply, getSideToMove(board), Top.lastMove)
            > getMoveScore(k, board, Top.ttMove, Top.ply, getSideToMove(board), Top.lastMove)

(***************************************************************************)
(* The entry pvSearch stores after its move loop                           *)
(***************************************************************************)
\* The classification the claim gives the node frame fr stores: EXACT when the
\* score lies strictly inside the window of entry, BETA after a cutoff,
\* ALPHA otherwise.
ClaimedType(fr) ==
  IF fr.entryAlpha < fr.bestEval /\ fr.bestEval < fr.entryBeta THEN "EXACT"
  ELSE IF fr.pc = "store" THEN "BETA"
  ELSE "ALPHA"

\* The entry the finishing node leaves in the table.
StoredEntry == transpositionTable'[hashKeyOf(Top.entryBoard)]

\* C14: the entry stored after the move loop is EXACT exactly when the
\* returned score lies strictly inside the window the node was entered with,
\* BETA when the loop ended by a cutoff and ALPHA otherwise, in the maximizing
\* and in the minimizing branch, and its best move is the move that produced
\* the returned score.
C14_StoredClassification ==
  [][PvFinish =>
       /\ StoredEntry.score = Top.bestEval
       /\ StoredEntry.type = ClaimedType(Top)
       /\ Top.pv # << >> => StoredEntry.bestMove = Top.pv[1]]_vars

\* C14 in the maximizing branch alone.
C14_MaximizingClassification ==
  [][PvFinish /\ Top.maximizingPlayer =>
       /\ StoredEntry.score = Top.bestEval
       /\ StoredEntry.type = ClaimedType(Top)
       /\ Top.pv # << >> => StoredEntry.bestMove = Top.pv[1]]_vars

\* C14 without the classification: the stored move and score.
C14_StoredMove ==
  [][PvFinish =>
       /\ StoredEntry.score = Top.bestEval
       /\ Top.pv # << >> => StoredEntry.bestMove = Top.pv[1]]_vars

(***************************************************************************)
(* The depth handed to the child searches                                  *)
(***************************************************************************)
\* getDepthAdjustment of the move frame fr has made, at its place in the
\* ordered move list.
AdjustmentOf(fr) ==
  getDepthAdjustment(fr.move, fr.entryBoard,
                     isPVMove(fr.move, principalVariation, fr.ply), fr.i - 1)

\* The frames of pvSearch that wait for the child search of a move.
Searching == { k \in 1 .. Len(stack) - 1 : stack[k].fn = "pv" /\ stack[k].pc \in {"null", "full"} }

\* C15: a non-first move whose getDepthAdjustment is negative is searched at
\* the remaining depth max(0, depth - 1 + moveExtension + adjustment).
C15_ReductionApplied ==
  \A k \in Searching :
    (stack[k].i > 1 /\ AdjustmentOf(stack[k]) < 0) =>
       stack[k + 1].depth
         = Max(0, stack[k].depth - 1 + stack[k].moveExtension + AdjustmentOf(stack[k]))

\* C15 as the code has it: every child search is run at depth - 1 +
\* moveExtension, whatever getDepthAdjustment returns for the move.
C15_DepthUnreduced ==
  \A k \in Searching : stack[k + 1].depth = stack[k].depth - 1 + stack[k].moveExtension

(***************************************************************************)
(* The bookkeeping of a cutoff in the move loop of pvSearch                *)
(***************************************************************************)
\* The child search of Top.move returns and the move closes the window.
CutoffStep == PvChildReturn /\ stack'[Len(stack')].pc = "store"

\* What the claim says of the killer and history tables after a cutoff by
\* the quiet move Top.move, and that a capture leaves the three tables alone.
CutoffKillerHistory ==
  IF getPieceAt(board', Top.move.to) = NoPiece
    THEN /\ SameMove(killerMoves'[Top.ply][1], Top.move)
         /\ HistoryAt(historyTable', HistoryKey(Top.move, getSideToMove(board')))
              = HistoryAt(historyTable, HistoryKey(Top.move, getSideToMove(board')))
                  + Top.depth * Top.depth
    ELSE UNCHANGED << killerMoves, historyTable, counterMoves >>

\* C16: once a move makes beta <= alpha no later move of the node is searched;
\* a quiet cutting move becomes killer slot 0 of the ply, its history entry
\* grows by depth * depth and getCounterMove(lastMove) returns it whenever
\* lastMove is a valid move; a capturing one changes none of the tables.
C16_CutoffBookkeeping ==
  [][/\ Running("pv", "store") => PvFinish
     /\ CutoffStep =>
          /\ CutoffKillerHistory
          /\ (getPieceAt(board', Top.move.to) = NoPiece
                /\ isValid(Top.lastMove.from) /\ isValid(Top.lastMove.to))
               => SameMove(getCounterMove(counterMoves', rootBoard, Top.lastMove), Top.move)]_vars

\* C16 without the counter move: the end of the loop, the killer slot, the
\* history entry, and the tables after a capture.
C16_KillerAndHistory ==
  [][/\ Running("pv", "store") => PvFinish
     /\ CutoffStep => CutoffKillerHistory]_vars

\* C16, the counter move as the code has it: after a cutoff by a quiet move
\* getCounterMove(lastMove) returns the move exactly when lastMove is valid and
\* the board of the game, not the board searched, has a piece on the
\* destination of lastMove.
C16_CounterMoveOnGameBoard ==
  [][(CutoffStep /\ getPieceAt(board', Top.move.to) = NoPiece) =>
        IF /\ isValid(Top.lastMove.from) /\ isValid(Top.lastMove.to)
           /\ getPieceAt(rootBoard, Top.lastMove.to) # NoPiece
          THEN SameMove(getCounterMove(counterMoves', rootBoard, Top.lastMove), Top.move)
          ELSE /\ getCounterMove(counterMoves', rootBoard, Top.lastMove) = NullMove
               /\ UNCHANGED counterMoves]_vars

(***************************************************************************)
(* The windows of the child searches                                       *)
(***************************************************************************)
\* No move before the one frame fr is at has been made on the board.
FirstMade(fr) ==
  \A j \in 1 .. fr.i - 1 : ~makeMoveOk(fr.entryBoard, fr.scoredMoves[j].move)

\* The frame that calls and the frame it has called, after a step that calls.
Caller == stack'[Len(stack)]

Callee == stack'[Len(stack')]

CalledWith(a, b) == Callee.entryAlpha = a /\ Callee.entryBeta = b

\* The first search of a move, as the claim has it, with (minimizingLow,
\* minimizingHigh) the window of a later move in the minimizing role.
FirstSearchAsClaimed(minimizingLow, minimizingHigh) ==
  PvSearchMove =>
    IF FirstMade(Top)
      THEN Caller.pc = "full" /\ CalledWith(-Top.beta, -Top.alpha)
      ELSE /\ Caller.pc = "null"
           /\ IF Top.maximizingPlayer
                THEN CalledWith(-Top.alpha - 1, -Top.alpha)
                ELSE CalledWith(minimizingLow, minimizingHigh)

\* The second search of a move: made exactly when the result of the null
\* window lies strictly between alpha and beta, and with the full window.
ResearchAsClaimed ==
  /\ (Running("pv", "null") /\ ret.score # INT_MIN) =>
        (PvResearch <=> (-ret.score > Top.alpha /\ -ret.score < Top.beta))
  /\ PvResearch => Caller.pc = "full" /\ CalledWith(-Top.beta, -Top.alpha)

\* C17: the first move made at a node is searched with the window
\* (-beta, -alpha); every later move is first searched with the null window
\* (-alpha - 1, -alpha) in the maximizing role and with the null window
\* mirrored around beta, (-beta, -beta + 1), in the minimizing role, and is
\* searched again with the full window if and only if the first result lies
\* strictly between alpha and beta.
C17_Windows ==
  [][FirstSearchAsClaimed(-Top.beta, -Top.beta + 1) /\ ResearchAsClaimed]_vars

\* C17 as the code has it: the minimizing role uses the null window
\* (-alpha - 1, -alpha) of the maximizing role.
C17_SameNullWindow ==
  [][FirstSearchAsClaimed(-Top.alpha - 1, -Top.alpha) /\ ResearchAsClaimed]_vars

(***************************************************************************)
(* The windows the invocations are entered with                            *)
(***************************************************************************)
\* C18: the root search is started with alpha < beta, and every invocation of
\* pvSearch and quiescenceSearch below it is entered with alpha strictly less
\* than beta: full-window children, null-window children and second searches,
\* in the maximizing and in the minimizing branch.
C18_WindowsOpen ==
  \A k \in 1 .. Len(stack) : stack[k].entryAlpha < stack[k].entryBeta

\* A quiescenceSearch entered below the second, full-window search of a move
\* and below the null-window search of a move of a minimizing node.
C18_Witness ==
  /\ Len(stack) > 0 /\ Top.fn = "qs" /\ Top.entryAlpha < Top.entryBeta
  /\ \E k \in Searching : stack[k].pc = "full" /\ stack[k].foundPV
  /\ \E k \in Searching : stack[k].pc = "null" /\ ~stack[k].maximizingPlayer

(***************************************************************************)
(* The key of a capture                                                    *)
(***************************************************************************)
MaxSee == 3

\* The results of seeCapture the capture test of getMoveScore is tried with.
SeeScores == -MaxSee .. MaxSee

PieceTypes == {"PAWN", "KNIGHT", "BISHOP", "ROOK", "QUEEN", "KING"}

\* getMoveScore reaches its capture test with seeScore reported for the
\* capture of victim by attacker.
ScoreCapture ==
  /\ \E seeScore \in SeeScores, attacker, victim \in PieceTypes :
       probe' = [fn |-> "getMoveScore", seeScore |-> seeScore, attacker |-> attacker,
                 victim |-> victim, result |-> captureScore(seeScore, attacker, victim)]
  /\ UNCHANGED << game, rootBoard, maxDepth, board, stack, ret, tables, driver, storeLog,
                  historyCalls >>

SpecCapture == TablesInit /\ [][ScoreCapture]_vars

MaxMoveIndex == 13

\* getDepthAdjustment is called for a legal move of the start position of a
\* game, as a PV move or not, at any place of the move list.
AdjustDepth ==
  /\ \E move \in NodeMoves, pvMove \in BOOLEAN, moveIndex \in 0 .. MaxMoveIndex :
       probe' = [fn |-> "getDepthAdjustment", board |-> board, move |-> move,
                 pvMove |-> pvMove, moveIndex |-> moveIndex,
                 result |-> getDepthAdjustment(move, board, pvMove, moveIndex)]
  /\ UNCHANGED << game, rootBoard, maxDepth, board, stack, ret, tables, driver, storeLog,
                  historyCalls >>

SpecAdjust == PositionsInit /\ [][AdjustDepth]_vars

\* The move of the last call takes a piece.
AdjustedCapture == getPieceAt(probe.board, probe.move.to) # NoPiece

\* What the claim has getDepthAdjustment return for a quiet move.
QuietAdjustment ==
  IF probe.pvMove \/ probe.moveIndex < 3 THEN 0
  ELSE IF probe.moveIndex < 6 THEN -1
  ELSE -2

\* C20: getDepthAdjustment never applies the index-based reduction to a
\* capture: a move whose destination holds a piece gets -1 if seeCapture is
\* negative and 0 otherwise, whatever its index; a non-capture gets 0 when it
\* is a PV move or its index is below 3, -1 for index 3..5 and -2 from index
\* 6 on; the result is always one of 0, -1, -2.
C20_CapturesNotReduced ==
  probe.fn = "getDepthAdjustment" =>
    /\ probe.result \in {0, -1, -2}
    /\ probe.result = IF AdjustedCapture
                        THEN (IF seeCapture(probe.board, probe.move) < 0 THEN -1 ELSE 0)
                        ELSE QuietAdjustment

\* C20 as the code has it: a capture that seeCapture does not find losing is
\* reduced by its index as a quiet move is, and a PV move is never reduced.
C20_ReducedByIndex ==
  probe.fn = "getDepthAdjustment" =>
    /\ probe.result \in {0, -1, -2}
    /\ probe.result = IF probe.pvMove THEN 0
                      ELSE IF AdjustedCapture /\ seeCapture(probe.board, probe.move) < 0
                        THEN -1
                      ELSE QuietAdjustment

(***************************************************************************)
(* The extension of a child search                                         *)
(***************************************************************************)
\* The extensions the move frame fr has made qualifies for, on its board.
InCheckAt(fr) == isInCheck(fr.entryBoard)

SingularAt(fr) == Len(generateLegalMoves(fr.entryBoard)) = 1 /\ fr.depth >= 2

RecaptureAt(fr) == isValid(fr.lastMove.to) /\ fr.move.to = fr.lastMove.to

PawnPushAt(fr) ==
  /\ getPieceAt(fr.entryBoard, fr.move.from).type = "PAWN"
  /\ RowOf(fr.move.to) = IF getSideToMove(fr.entryBoard) = "WHITE" THEN 6 ELSE 1

QualifiedAt(fr) ==
  Cardinality({ n \in 1 .. 4 : CASE n = 1 -> InCheckAt(fr) [] n = 2 -> SingularAt(fr)
                                 [] n = 3 -> RecaptureAt(fr) [] n = 4 -> PawnPushAt(fr) })

\* C21: the child search of every move runs at depth - 1 plus an extension
\* of 0 or 1: check, singular-move, recapture and pawn-push extension combine
\* by maximum, so a move that qualifies for any number of them is extended by
\* exactly one ply and a move that qualifies for none is searched at
\* depth - 1.
C21_ExtensionAtMostOne ==
  \A k \in Searching :
    stack[k + 1].depth = stack[k].depth - 1 + (IF QualifiedAt(stack[k]) > 0 THEN 1 ELSE 0)

\* A move that qualifies for two extensions at once is searched one ply
\* deeper, and a move of another node that qualifies for none is not.
C21_Witness ==
  /\ \E k \in Searching :
       QualifiedAt(stack[k]) >= 2 /\ stack[k + 1].depth = stack[k].depth
  /\ \E k \in Searching :
       QualifiedAt(stack[k]) = 0 /\ stack[k + 1].depth = stack[k].depth - 1

(***************************************************************************)
(* Captures quiescenceSearch searches                                      *)
(***************************************************************************)
DELTA_MARGIN == 200

\* The most the capture frame fr has made can gain: the piece taken (a pawn
\* en passant) and the promotion of a pawn that reaches a last rank.
MaximumGain(fr) ==
  LET capturedPiece == getPieceAt(fr.entryBoard, fr.move.to)
      captureValue == IF capturedPiece # NoPiece THEN getPieceValue(capturedPiece.type)
                      ELSE PAWN_VALUE
      promotionBonus ==
        IF /\ getPieceAt(fr.entryBoard, fr.move.from).type = "PAWN"
           /\ RowOf(fr.move.to) \in {0, 7}
          THEN QUEEN_VALUE - PAWN_VALUE ELSE 0
  IN captureValue + promotionBonus

\* The capture frame fr has made cannot lift the stand-pat score above the
\* alpha the captures were scored under.
Futile(fr) ==
  fr.standPat + MaximumGain(fr) + DELTA_MARGIN <= Max(fr.entryAlpha, fr.standPat)

\* The frames of quiescenceSearch that have made a capture and search it.
QsSearching == { k \in 1 .. Len(stack) - 1 : stack[k].fn = "qs" /\ stack[k].pc = "full" }

\* C22: when the side to move is not in check, quiescenceSearch never makes
\* and searches a capture for which stand-pat + value of the captured piece
\* + promotion bonus + 200 <= alpha.
C22_FutileCaptureSkipped ==
  \A k \in QsSearching : ~isInCheck(stack[k].entryBoard) => ~Futile(stack[k])


(***************************************************************************)
(* C23: quiescenceSearch is fail-hard                                      *)
(***************************************************************************)
\* The frame on top is a quiescenceSearch call below the ply ceiling with an
\* open window, and this step returns from it.
QsReturns ==
  /\ Len(stack) > 0
  /\ Top.fn = "qs"
  /\ ~qsPlyCeiling(Top.ply)
  /\ Top.entryAlpha < Top.entryBeta
  /\ stack' = Below

\* The scores the call on top has seen: the stand-pat score and the score of
\* every capture searched, the one whose search has just returned included.
QsSeen ==
  {evaluatePosition(Top.entryBoard)}
    \cup { Top.searched[n] : n \in 1 .. Len(Top.searched) }
    \cup (IF Top.pc = "full" THEN {-ret.score} ELSE {})

\* C23: every return of quiescenceSearch from a call with alpha < beta below
\* the ply ceiling yields a value v with alpha <= v <= beta; v is beta when
\* the stand-pat score or the score of a searched capture is at least beta,
\* and otherwise v is the largest of the entry alpha, the stand-pat score and
\* the scores of the searched captures.
C23_FailHard ==
  [][QsReturns =>
       /\ Top.entryAlpha <= ret'.score
       /\ ret'.score <= Top.entryBeta
       /\ ret'.score = IF \E s \in QsSeen : s >= Top.entryBeta
                         THEN Top.entryBeta
                         ELSE MaxOf(QsSeen \cup {Top.entryAlpha})]_vars

\* A quiescenceSearch call below the ply ceiling has returned a score strictly
\* inside its window that a searched capture raised above both the entry alpha
\* and the stand-pat score.
C23_Witness ==
  /\ ret.fn = "qs"
  /\ ret.kind = "alpha"
  /\ ret.ply < MAX_PLY - 1
  /\ ret.alpha < ret.score
  /\ ret.score < ret.beta
  /\ evaluatePosition(ret.board) < ret.score


(***************************************************************************)
(* C24: the move loop's initial value is never returned or stored          *)
(***************************************************************************)
\* int maxEval = std::numeric_limits<int>::min();
\* int minEval = std::numeric_limits<int>::max();
LoopSentinel(maximizingPlayer) == IF maximizingPlayer THEN INT_MIN ELSE INT_MAX

\* The moves of the list of frame fr that makeMove accepts.
MovesMade(fr) ==
  { n \in 1 .. Len(fr.scoredMoves) : makeMoveOk(fr.entryBoard, fr.scoredMoves[n].move) }

\* C24: a pvSearch node that reached its move loop (a position with a legal
\* move, depth >= 1, below the ply ceiling, no transposition hit) has made
\* and searched at least one move when it finishes, and the score it stores
\* in the transposition table and returns is not the initial value of its
\* loop, INT_MIN when maximizing and INT_MAX when minimizing.
C24_NoSentinel ==
  [][PvFinish =>
       /\ MovesMade(Top) # {}
       /\ Top.bestEval # LoopSentinel(Top.maximizingPlayer)
       /\ StoredEntry.score # LoopSentinel(Top.maximizingPlayer)]_vars


(***************************************************************************)
(* C25: the recursion of see, level by level                               *)
(***************************************************************************)
\* The deepest recursion of see the model follows.
MaxSeeLevels == 4

\* A call of seeCapture is under way: probe.frames holds the call of
\* seeCapture (frames[1], side the mover, captureValue the captured piece's
\* value) and above it the nested calls of see with their side and
\* captureValue; probe.returned tells that the call above the top frame has
\* returned probe.value to it.
SeeRunning == probe.fn = "seeCapture" /\ ~probe.done

SeeTop == probe.frames[Len(probe.frames)]

\* seeCapture(board, move) is called for a legal move of the position: a
\* non-capture returns 0 at once, a capture calls see.
SeeCaptureCall ==
  /\ ~SeeRunning
  /\ \E move \in NodeMoves :
       LET capturedPiece == getPieceAt(board, move.to)
           movingPiece == getPieceAt(board, move.from)
       IN probe' =
            IF capturedPiece = NoPiece \/ movingPiece = NoPiece
              THEN [fn |-> "seeCapture", board |-> board, move |-> move, frames |-> << >>,
                    levels |-> 0, returned |-> FALSE, value |-> 0, endSide |-> "WHITE",
                    done |-> TRUE, result |-> 0]
              ELSE [fn |-> "seeCapture", board |-> board, move |-> move,
                    frames |-> << [side |-> movingPiece.color,
                                   captureValue |-> getPieceValue(capturedPiece.type)],
                                  [side |-> movingPiece.color,
                                   captureValue |-> getPieceValue(movingPiece.type)] >>,
                    levels |-> 1, returned |-> FALSE, value |-> 0, endSide |-> "WHITE",
                    done |-> FALSE, result |-> 0]
  /\ UNCHANGED << game, rootBoard, maxDepth, board, stack, ret, tables, driver, storeLog,
                  historyCalls >>

\* One level of see scans the board for the least valuable piece not of
\* colour side that can move to the square: with none it returns 0, otherwise
\* it calls see for the other side.
SeeLevel ==
  /\ SeeRunning
  /\ ~probe.returned
  /\ probe.levels <= MaxSeeLevels
  /\ LET values == AttackerValues(board, probe.move.to, SeeTop.side) IN
       IF values = {}
         THEN probe' = [probe EXCEPT !.frames = SubSeq(@, 1, Len(@) - 1),
                                     !.returned = TRUE, !.value = 0,
                                     !.endSide = SeeTop.side]
         ELSE probe' = [probe EXCEPT
                !.frames = Append(@, [side |-> Other(SeeTop.side),
                                      captureValue |-> CHOOSE v \in values :
                                                         \A w \in values : v <= w]),
                !.levels = @ + 1]
  /\ UNCHANGED << game, rootBoard, maxDepth, board, stack, ret, tables, driver, storeLog,
                  historyCalls >>

\* The call above has returned: see returns std::max(0, captureValue - value)
\* to its caller, seeCapture returns captureValue - value.
SeeReturn ==
  /\ SeeRunning
  /\ probe.returned
  /\ IF Len(probe.frames) = 1
       THEN probe' = [probe EXCEPT !.frames = << >>, !.done = TRUE,
                                   !.result = SeeTop.captureValue - probe.value]
       ELSE probe' = [probe EXCEPT !.frames = SubSeq(@, 1, Len(@) - 1),
                                   !.value = Max(0, SeeTop.captureValue - probe.value)]
  /\ UNCHANGED << game, rootBoard, maxDepth, board, stack, ret, tables, driver, storeLog,
                  historyCalls >>

\* Between two calls a legal move is played.
PlayBetweenCalls == ~SeeRunning /\ PlayMove

NextSee == PlayBetweenCalls \/ SeeCaptureCall \/ SeeLevel \/ SeeReturn

SpecSee == PositionsInit /\ [][NextSee]_vars

\* The engine runs on one thread: a call under way goes on.
SpecSeeLive == SpecSee /\ WF_vars(SeeLevel \/ SeeReturn)

\* Every call of seeCapture returns.
SeeTerminates == SeeRunning ~> (probe.fn = "seeCapture" /\ probe.done)

\* No step of a call changes the board passed in.
SeeBoardUnchanged ==
  [][SeeLevel \/ SeeReturn => board = probe.board /\ board' = board]_vars

\* The value returned is the value of seeCapture.
SeeResult ==
  probe.fn = "seeCapture" /\ probe.done => probe.result = seeCapture(probe.board, probe.move)

\* A call of see for a capture has ended.
SeeEnded == probe.fn = "seeCapture" /\ probe.done /\ probe.levels > 0

\* C25: the recursion of see ends at the level where the side to capture,
\* the side other than the level's side argument, has no attacker of the
\* target square left, every level before it having used up one attacker.
C25_EndsWithoutAttacker ==
  SeeEnded => ~Attacked(probe.board, probe.move.to, Other(probe.endSide))

====
